---- MODULE Spec2Model ----
(***************************************************************************)
(* Model of the DOCX placeholder engine (internal/processor/docx.go) and   *)
(* of the service calls that drive it (services.DocumentService.           *)
(* ProcessDocument, TemplateService.UploadTemplate).                        *)
(*                                                                         *)
(* A Go string is modelled as a sequence of runes.  Every rune is a one-   *)
(* character TLA+ string except "TH", which stands for one non-ASCII rune  *)
(* (a Thai letter) whose UTF-8 encoding is three bytes long.  Offsets that *)
(* the code computes in bytes (strings.Index, slicing, range-over-string)  *)
(* are bytes here too; offsets it computes in runes ([]rune) are runes.    *)
(***************************************************************************)
EXTENDS Integers, Sequences, FiniteSets, TLC

VARIABLES
    archive,        \* the input container handed to the call
    call,           \* which service call runs: "UploadTemplate" or "ProcessDocument"
    data,           \* ProcessDocument's data map[string]string
    now,            \* the value time.Now().UnixNano() returns
    pc,             \* position of the call
    result,         \* "none", "ok", "error" or "panic"
    tempDir,        \* DocxProcessor.tempDir (absolute path), <<>> before construction
    dirs,           \* directories on disk
    files,          \* regular files on disk: path -> content
    outputFile,     \* the file at DocxProcessor.outputFile
    extractIdx,     \* loop index of UnzipDocx over reader.File
    deferred,       \* deferred calls registered so far by the service call
    positions,      \* result of ExtractPlaceholdersWithPositions
    placeholders,   \* result of ExtractPlaceholders
    completeData,   \* the map handed to FindAndReplaceInDocument
    contentStr,     \* FindAndReplaceInDocument's working string
    pending,        \* keys of the map the range loop has not visited yet
    lastIn,         \* contentStr before the latest replaceWithXMLHandling
    lastKey,        \* the placeholder of the latest replaceWithXMLHandling
    layout,         \* the DocumentLayout ExtractPlaceholdersWithPositions parsed
    landscape,      \* what DetectOrientation returned: "none" before the call
    slow,           \* a run of replaceXMLSafeSlow, step by step
    jobs,           \* concurrent ProcessDocument calls: job -> its position and fields
    store,          \* ProcessDocument from the upload on: bucket, deletes, record
    svc,            \* a FileCleanupService, its goroutines and its caller
    retry           \* a run of convertWithRetry

vars == <<archive, call, data, now, pc, result, tempDir, dirs, files,
          outputFile, extractIdx, deferred, positions, placeholders,
          completeData, contentStr, pending, lastIn, lastKey, layout, landscape,
          slow, jobs, store, svc, retry>>

(***************************************************************************)
(* Bounds of the model.                                                    *)
(***************************************************************************)
MaxPieces == 6

(***************************************************************************)
(* Strings.                                                                *)
(***************************************************************************)
\* utf8.RuneLen of a rune
RuneLen(r) == IF r = "TH" THEN 3 ELSE 1

\* len(s) of a Go string: one byte for every rune, and the further bytes of
\* the runes "TH"
ByteLen(s) == Len(s) + (RuneLen("TH") - 1) * Cardinality({i \in DOMAIN s : s[i] = "TH"})

RECURSIVE RunesBeforeIn(_, _, _, _)
\* the largest n in lo..hi such that the n-th rune of s starts before byte b
RunesBeforeIn(s, b, lo, hi) ==
    IF lo = hi THEN lo
    ELSE LET mid == (lo + hi + 1) \div 2
         IN IF ByteLen(SubSeq(s, 1, mid - 1)) < b
            THEN RunesBeforeIn(s, b, mid, hi)
            ELSE RunesBeforeIn(s, b, lo, mid - 1)

\* number of runes of s that start before byte offset b
RunesBefore(s, b) == IF b <= 0 THEN 0 ELSE RunesBeforeIn(s, b, 0, Len(s))

\* s[lo:hi] with byte offsets on rune boundaries
Slice(s, lo, hi) == SubSeq(s, RunesBefore(s, lo) + 1, RunesBefore(s, hi))

HasPrefix(s, p) == Len(p) <= Len(s) /\ SubSeq(s, 1, Len(p)) = p

\* rune index (0-based) of the first occurrence of sub in s, or -1
RuneIndex(s, sub) ==
    LET hits == {i \in 0..(Len(s) - Len(sub)) : SubSeq(s, i + 1, i + Len(sub)) = sub}
    IN IF hits = {} THEN -1 ELSE CHOOSE i \in hits : \A j \in hits : i <= j

\* strings.Index: byte offset of the first occurrence of sub in s, or -1
Index(s, sub) ==
    LET r == RuneIndex(s, sub)
    IN IF r = -1 THEN -1 ELSE ByteLen(SubSeq(s, 1, r))

\* strings.Contains
Contains(s, sub) == Index(s, sub) # -1

RECURSIVE Interleave(_, _)
\* strings.ReplaceAll with an empty old string: new before every rune and at the end
Interleave(s, new) ==
    IF s = <<>> THEN new ELSE new \o <<Head(s)>> \o Interleave(Tail(s), new)

RECURSIVE ReplaceAll(_, _, _)
\* strings.ReplaceAll: non-overlapping occurrences, left to right
ReplaceAll(s, old, new) ==
    IF old = <<>> THEN Interleave(s, new)
    ELSE LET r == RuneIndex(s, old)
         IN IF r = -1 THEN s
            ELSE SubSeq(s, 1, r) \o new
                 \o ReplaceAll(SubSeq(s, r + Len(old) + 1, Len(s)), old, new)

LBraces == <<"{", "{">>
RBraces == <<"}", "}">>

(***************************************************************************)
(* processor/docx.go: tag stripping and the placeholder scanner.           *)
(***************************************************************************)
\* one iteration of removeXMLTags' loop: what it writes to the builder and
\* the inTag it leaves
removeXMLTagsStep(char, inTag) ==
    IF char = "<" THEN [out |-> <<>>, inTag |-> TRUE]
    ELSE IF char = ">" THEN [out |-> <<>>, inTag |-> FALSE]
    ELSE IF ~inTag THEN [out |-> <<char>>, inTag |-> inTag]
    ELSE [out |-> <<>>, inTag |-> inTag]

RECURSIVE removeXMLTagsLoop(_, _, _, _)
\* the iterations over the runes content[lo..hi], in order, run by halves
removeXMLTagsLoop(content, lo, hi, inTag) ==
    IF lo > hi THEN [out |-> <<>>, inTag |-> inTag]
    ELSE IF lo = hi THEN removeXMLTagsStep(content[lo], inTag)
    ELSE LET mid == (lo + hi) \div 2
             left == removeXMLTagsLoop(content, lo, mid, inTag)
             right == removeXMLTagsLoop(content, mid + 1, hi, left.inTag)
         IN [out |-> left.out \o right.out, inTag |-> right.inTag]

removeXMLTags(content) == removeXMLTagsLoop(content, 1, Len(content), FALSE).out

\* one iteration of findXMLPositions' range loop at a rune; st.xmlPos is the
\* rune's byte offset, st.done is set by the break
findXMLPositionsStep(st, char, cleanStart, cleanEnd) ==
    LET next == st.xmlPos + RuneLen(char)
        start == IF st.cleanPos = cleanStart /\ st.xmlStart = -1 THEN st.xmlPos ELSE st.xmlStart
    IN IF st.done THEN st
       ELSE IF char = "<" THEN [st EXCEPT !.xmlPos = next, !.inTag = TRUE]
       ELSE IF char = ">" THEN [st EXCEPT !.xmlPos = next, !.inTag = FALSE]
       ELSE IF st.inTag THEN [st EXCEPT !.xmlPos = next]
       ELSE IF st.cleanPos = cleanEnd - 1
            THEN [st EXCEPT !.xmlStart = start, !.xmlEnd = st.xmlPos + 1, !.done = TRUE]
            ELSE [st EXCEPT !.xmlPos = next, !.xmlStart = start, !.cleanPos = st.cleanPos + 1]

RECURSIVE findXMLPositionsLoop(_, _, _, _, _, _)
\* the iterations over the runes xmlContent[lo..hi], in order, run by halves
findXMLPositionsLoop(xmlContent, cleanStart, cleanEnd, lo, hi, st) ==
    IF st.done \/ lo > hi THEN st
    ELSE IF lo = hi THEN findXMLPositionsStep(st, xmlContent[lo], cleanStart, cleanEnd)
    ELSE LET mid == (lo + hi) \div 2
         IN findXMLPositionsLoop(xmlContent, cleanStart, cleanEnd, mid + 1, hi,
                                 findXMLPositionsLoop(xmlContent, cleanStart, cleanEnd, lo, mid, st))

findXMLPositions(xmlContent, cleanText, cleanStart, cleanEnd) ==
    LET st == findXMLPositionsLoop(xmlContent, cleanStart, cleanEnd, 1, Len(xmlContent),
                                   [xmlPos |-> 0, cleanPos |-> 0, inTag |-> FALSE,
                                    xmlStart |-> -1, xmlEnd |-> -1, done |-> FALSE])
    IN <<st.xmlStart, st.xmlEnd>>

(***************************************************************************)
(* float64.  A finite float64 is the record [neg, m, e] of value           *)
(* (-1)^neg * m * 2^e, with m an odd natural number of at most             *)
(* MantissaBits bits, or m = 0 and e = 0.  A natural number is the         *)
(* sequence of its digits in base LimbBase, lowest first, without leading  *)
(* zero digits.  Every operation rounds to nearest, ties to even; the      *)
(* exponent range of float64 is never left by the values met here.         *)
(***************************************************************************)
MantissaBits == 53
LimbBits == 15
LimbBase == 2 ^ LimbBits

MaxOf(S) == CHOOSE a \in S : \A b \in S : b <= a

\* F(v), with v computed before F is entered: a value bound by a quantifier
\* is computed at once, an operator argument only where it is first read
With(v, F(_)) == CHOOSE r \in {F(x) : x \in {v}} : TRUE

\* the digits of a without leading zero digits
BigTrim(a) == SubSeq(a, 1, MaxOf({0} \cup {i \in DOMAIN a : a[i] # 0}))

\* a natural number below 2^31 as digits
BigFromInt(n) == BigTrim(<<n % LimbBase, (n \div LimbBase) % LimbBase, n \div (LimbBase * LimbBase)>>)

BigDigit(a, i) == IF i \in DOMAIN a THEN a[i] ELSE 0

\* the value of a, which is below 2^31
BigToInt(a) == BigDigit(a, 1) + LimbBase * BigDigit(a, 2) + LimbBase * LimbBase * BigDigit(a, 3)

\* -1, 0 or 1 as a < b, a = b or a > b
BigCmp(a, b) ==
    IF Len(a) # Len(b) THEN (IF Len(a) < Len(b) THEN -1 ELSE 1)
    ELSE IF a = b THEN 0
    ELSE IF a[MaxOf({i \in DOMAIN a : a[i] # b[i]})] < b[MaxOf({i \in DOMAIN a : a[i] # b[i]})]
    THEN -1 ELSE 1

\* a carry enters digit i of a + b: a digit below it overflows, and every
\* digit between the two is full
BigCarry(a, b, i) ==
    \E j \in 1..(i - 1) :
        /\ BigDigit(a, j) + BigDigit(b, j) >= LimbBase
        /\ \A k \in (j + 1)..(i - 1) : BigDigit(a, k) + BigDigit(b, k) = LimbBase - 1

BigAddDigits(a, b, n) ==
    [i \in 1..n |-> (BigDigit(a, i) + BigDigit(b, i) + IF BigCarry(a, b, i) THEN 1 ELSE 0) % LimbBase]

BigAdd(a, b) == BigTrim(BigAddDigits(a, b, 1 + IF Len(a) > Len(b) THEN Len(a) ELSE Len(b)))

\* a borrow leaves digit i of a - b: a digit below it falls short, and every
\* digit between the two is level
BigBorrow(a, b, i) ==
    \E j \in 1..(i - 1) :
        /\ a[j] < BigDigit(b, j)
        /\ \A k \in (j + 1)..(i - 1) : a[k] = BigDigit(b, k)

\* a - b for a >= b
BigSub(a, b) ==
    BigTrim([i \in 1..Len(a) |->
                (a[i] - BigDigit(b, i) - IF BigBorrow(a, b, i) THEN 1 ELSE 0) % LimbBase])

\* a * d for a digit d: the low halves of the products of the digits, plus
\* their high halves one digit up
BigMulSmall(a, d) ==
    BigAdd([i \in 1..Len(a) |-> (a[i] * d) % LimbBase],
           [i \in 1..(Len(a) + 1) |-> IF i = 1 THEN 0 ELSE (a[i - 1] * d) \div LimbBase])

\* a * LimbBase^k
BigShlLimbs(a, k) == IF a = <<>> THEN <<>> ELSE [i \in 1..k |-> 0] \o a

RECURSIVE BigMulFrom(_, _, _)
BigMulFrom(a, b, j) ==
    IF j > Len(b) THEN <<>>
    ELSE BigAdd(BigMulSmall(a, b[j]), BigShlLimbs(BigMulFrom(a, b, j + 1), 1))

BigMul(a, b) == BigMulFrom(a, b, 1)

RECURSIVE BigDivSmallFrom(_, _, _)
\* one digit of the short division: prev is the result for the digits above
BigDivSmallDigit(d, digit, prev) ==
    [q |-> <<(prev.r * LimbBase + digit) \div d>> \o prev.q,
     r |-> (prev.r * LimbBase + digit) % d]

\* quotient digits and remainder of the digits i.. of a by a digit d > 0
BigDivSmallFrom(a, d, i) ==
    IF i > Len(a) THEN [q |-> <<>>, r |-> 0]
    ELSE BigDivSmallDigit(d, a[i], BigDivSmallFrom(a, d, i + 1))

BigDivSmallResult(qr) == [q |-> BigTrim(qr.q), r |-> BigFromInt(qr.r)]

\* quotient and remainder of a by a digit d > 0
BigDivSmall(a, d) == BigDivSmallResult(BigDivSmallFrom(a, d, 1))

\* a * 2^s for s < LimbBits
BigShlBits(a, s) ==
    BigTrim([i \in 1..(Len(a) + 1) |->
                (BigDigit(a, i) % (2 ^ (LimbBits - s))) * (2 ^ s)
                + BigDigit(a, i - 1) \div (2 ^ (LimbBits - s))])

\* floor(a / 2^s) for s < LimbBits
BigShrBits(a, s) ==
    BigTrim([i \in 1..Len(a) |->
                a[i] \div (2 ^ s) + (BigDigit(a, i + 1) % (2 ^ s)) * (2 ^ (LimbBits - s))])

\* the number of bits of the digit d > 0
DigitBitLen(d) == MaxOf({k \in 1..LimbBits : 2 ^ (k - 1) <= d})

\* the quotient digit of cur by b, estimated from the two highest digits of
\* cur and the highest digit of b, which is at least LimbBase / 2: the
\* estimate is the digit or exceeds it by at most 2
BigQuotEstimate(cur, b) ==
    IF (BigDigit(cur, Len(b) + 1) * LimbBase + BigDigit(cur, Len(b))) \div b[Len(b)] >= LimbBase
    THEN LimbBase - 1
    ELSE (BigDigit(cur, Len(b) + 1) * LimbBase + BigDigit(cur, Len(b))) \div b[Len(b)]

\* the greatest digit d with d * b <= cur, for cur < b * LimbBase
BigQuotDigit(cur, b, estimate) ==
    MaxOf({d \in (estimate - 2)..estimate : d >= 0 /\ BigCmp(BigMulSmall(b, d), cur) <= 0})

RECURSIVE BigDivLongFrom(_, _, _)
\* one digit of the long division: cur is the remainder so far and the digit
BigDivLongDigit(b, cur, q, d) == [q |-> <<d>> \o q, r |-> BigSub(cur, BigMulSmall(b, d))]

BigDivLongStep(b, cur, q) ==
    BigDivLongDigit(b, cur, q, BigQuotDigit(cur, b, BigQuotEstimate(cur, b)))

\* nothing left to divide gives the digit 0
BigDivLongPrev(b, digit, prev) ==
    IF prev.r = <<>> /\ digit = 0 THEN [q |-> <<0>> \o prev.q, r |-> <<>>]
    ELSE BigDivLongStep(b, BigTrim(<<digit>> \o prev.r), prev.q)

\* quotient digits and remainder of the digits i.. of a by b; fewer digits
\* than b has are a remainder
BigDivLongFrom(a, b, i) ==
    IF i > Len(a) - Len(b) + 1 THEN [q |-> <<>>, r |-> BigTrim(SubSeq(a, i, Len(a)))]
    ELSE BigDivLongPrev(b, a[i], BigDivLongFrom(a, b, i + 1))

\* the division of a * 2^s by b * 2^s, brought back to that of a by b
BigDivLong(qr, s) == [q |-> BigTrim(qr.q), r |-> BigShrBits(qr.r, s)]

BigDivNormal(a, b, s) == BigDivLong(BigDivLongFrom(BigShlBits(a, s), BigShlBits(b, s), 1), s)

\* quotient and remainder of a by b > 0
BigDivMod(a, b) ==
    IF Len(b) = 1 THEN BigDivSmall(a, b[1])
    ELSE BigDivNormal(a, b, LimbBits - DigitBitLen(b[Len(b)]))

\* a * 2^k
BigShl(a, k) == BigShlLimbs(BigShlBits(a, k % LimbBits), k \div LimbBits)

\* floor(a / 2^k)
BigShr(a, k) == BigShrBits(SubSeq(a, k \div LimbBits + 1, Len(a)), k % LimbBits)

\* the number of bits of a
BigBitLen(a) ==
    IF a = <<>> THEN 0
    ELSE LimbBits * (Len(a) - 1) + DigitBitLen(a[Len(a)])

\* the number of zero bits at the low end of a > 0
BigTrailingZeros(a) ==
    LimbBits * (MaxOf({i \in DOMAIN a : \A j \in 1..i : a[j] = 0} \cup {0}))
    + MaxOf({k \in 0..(LimbBits - 1) :
               a[MaxOf({i \in DOMAIN a : \A j \in 1..i : a[j] = 0} \cup {0}) + 1] % (2 ^ k) = 0})

BigOdd(a) == a # <<>> /\ a[1] % 2 = 1

FloatZero == [neg |-> FALSE, m |-> <<>>, e |-> 0]

\* the float64 of value m * 2^e for m of at most MantissaBits bits
FloatExact(neg, m, e) ==
    IF m = <<>> THEN FloatZero
    ELSE [neg |-> neg, m |-> BigShr(m, BigTrailingZeros(m)), e |-> e + BigTrailingZeros(m)]

\* q or q + 1: q is floor(m / 2^shift), rest the bits of m below it
FloatRoundUp(q, rest, half) ==
    IF BigCmp(rest, half) > 0 \/ (rest = half /\ BigOdd(q)) THEN BigAdd(q, <<1>>) ELSE q

FloatRoundAt(neg, m, e, shift, q) ==
    FloatExact(neg, FloatRoundUp(q, BigSub(m, BigShl(q, shift)), BigShl(<<1>>, shift - 1)), e + shift)

\* the float64 nearest to m * 2^e, ties to even
FloatRound(neg, m, e) ==
    IF BigBitLen(m) <= MantissaBits THEN FloatExact(neg, m, e)
    ELSE FloatRoundAt(neg, m, e, BigBitLen(m) - MantissaBits,
                      BigShr(m, BigBitLen(m) - MantissaBits))

\* float64(n) for an int n of less than 31 bits
FloatFromInt(n) == FloatExact(n < 0, BigFromInt(IF n < 0 THEN -n ELSE n), 0)

FloatNeg(a) == IF a.m = <<>> THEN a ELSE [a EXCEPT !.neg = ~a.neg]

\* the float64 nearest to the sum of ma * 2^e and mb * 2^e with their signs
FloatAddAligned(aneg, ma, bneg, mb, e) ==
    IF aneg = bneg THEN FloatRound(aneg, BigAdd(ma, mb), e)
    ELSE IF BigCmp(ma, mb) >= 0 THEN FloatRound(aneg, BigSub(ma, mb), e)
    ELSE FloatRound(bneg, BigSub(mb, ma), e)

\* the float64 nearest to the sum of ma * 2^ea and mb * 2^eb with their signs
FloatAddExact(aneg, ma, ea, bneg, mb, eb) ==
    IF ma = <<>> THEN FloatRound(bneg, mb, eb)
    ELSE IF mb = <<>> THEN FloatRound(aneg, ma, ea)
    ELSE IF ea >= eb THEN FloatAddAligned(aneg, BigShl(ma, ea - eb), bneg, mb, eb)
    ELSE FloatAddAligned(aneg, ma, bneg, BigShl(mb, eb - ea), ea)

\* a + b
FloatAdd(a, b) == FloatAddExact(a.neg, a.m, a.e, b.neg, b.m, b.e)

\* a - b
FloatSub(a, b) == FloatAdd(a, FloatNeg(b))

\* a * b
FloatMul(a, b) == FloatRound(a.neg # b.neg, BigMul(a.m, b.m), a.e + b.e)

\* a * b + c: rounded once when the build fuses the two operations into one
\* instruction, as the language allows, and twice when it does not
FloatMulAdd(fused, a, b, c) ==
    IF fused
    THEN FloatAddExact(a.neg # b.neg, BigMul(a.m, b.m), a.e + b.e, c.neg, c.m, c.e)
    ELSE FloatAdd(FloatMul(a, b), c)

\* c - a * b, fused or not
FloatMulSub(fused, c, a, b) == FloatMulAdd(fused, FloatNeg(a), b, c)

\* qr is floor(ma * 2^k / mb) and the remainder; a remainder is kept as one
\* more bit below the quotient, which has bits to spare
FloatDivPack(neg, qr, e) ==
    FloatRound(neg, BigAdd(BigShl(qr.q, 1), IF qr.r = <<>> THEN <<>> ELSE <<1>>), e - 1)

FloatDivBy(neg, ma, mb, e, k) ==
    With(BigDivMod(BigShl(ma, k), mb), LAMBDA qr : FloatDivPack(neg, qr, e - k))

\* a / b for b # 0
FloatDiv(a, b) ==
    IF a.m = <<>> THEN FloatZero
    ELSE FloatDivBy(a.neg # b.neg, a.m, b.m, a.e - b.e,
                    MantissaBits + 2 + BigBitLen(b.m))

\* -1, 0 or 1 as a < b, a = b or a > b
FloatSign(a) == IF a.m = <<>> THEN 0 ELSE IF a.neg THEN -1 ELSE 1

FloatCmpSameSign(a, b) ==
    IF a.e >= b.e THEN BigCmp(BigShl(a.m, a.e - b.e), b.m)
    ELSE BigCmp(a.m, BigShl(b.m, b.e - a.e))

FloatCmp(a, b) ==
    IF FloatSign(a) # FloatSign(b) THEN (IF FloatSign(a) < FloatSign(b) THEN -1 ELSE 1)
    ELSE IF FloatSign(a) = 0 THEN 0
    ELSE FloatSign(a) * FloatCmpSameSign(a, b)

FloatLt(a, b) == FloatCmp(a, b) < 0
FloatLe(a, b) == FloatCmp(a, b) <= 0
FloatGt(a, b) == FloatCmp(a, b) > 0

\* int(a): a truncated towards zero, of less than 31 bits
FloatToInt(a) ==
    FloatSign(a) * BigToInt(IF a.e >= 0 THEN BigShl(a.m, a.e) ELSE BigShr(a.m, -a.e))

(***************************************************************************)
(* processor/docx.go: page layout and coordinates.  A value the code       *)
(* computes once and reads several times is handed on as an operator       *)
(* parameter.                                                              *)
(***************************************************************************)
\* the constant 14.4 as a float64: the float64 nearest to 144/10
DefaultLineHeight == FloatDiv(FloatFromInt(144), FloatFromInt(10))

\* getDefaultLayout; Landscape is the zero value
getDefaultLayout ==
    [PageWidth    |-> FloatFromInt(612),
     PageHeight   |-> FloatFromInt(792),
     LeftMargin   |-> FloatFromInt(72),
     RightMargin  |-> FloatFromInt(72),
     TopMargin    |-> FloatFromInt(72),
     BottomMargin |-> FloatFromInt(72),
     LineHeight   |-> DefaultLineHeight,
     Landscape    |-> FALSE]

Digits == {"0", "1", "2", "3", "4", "5", "6", "7", "8", "9"}

\* r - '0' for a digit rune
DigitValue(r) ==
    CASE r = "0" -> 0 [] r = "1" -> 1 [] r = "2" -> 2 [] r = "3" -> 3 [] r = "4" -> 4
      [] r = "5" -> 5 [] r = "6" -> 6 [] r = "7" -> 7 [] r = "8" -> 8 [] r = "9" -> 9

\* `decimal *= 10; result += digit / decimal`
parseFloatFraction(result_, decimal, digit) ==
    [result |-> FloatAdd(result_, FloatDiv(digit, decimal)), decimal |-> decimal,
     afterDecimal |-> TRUE]

\* the body of the parsing loop for the rune r, from the variables st.
\* result*10 + digit is exact for the digit strings met here, so that fusing
\* it changes nothing.
parseFloatRune(st, r) ==
    IF r = "." THEN [st EXCEPT !.afterDecimal = TRUE]
    ELSE IF st.afterDecimal
    THEN parseFloatFraction(st.result, FloatMul(st.decimal, FloatFromInt(10)),
                            FloatFromInt(DigitValue(r)))
    ELSE [st EXCEPT !.result = FloatAdd(FloatMul(st.result, FloatFromInt(10)),
                                        FloatFromInt(DigitValue(r)))]

RECURSIVE parseFloatLoop(_, _)
\* result, decimal and afterDecimal of parseFloatFromTwips after n runes of str
parseFloatLoop(str, n) ==
    IF n = 0
    THEN [result |-> FloatZero, decimal |-> FloatFromInt(1), afterDecimal |-> FALSE]
    ELSE parseFloatRune(parseFloatLoop(str, n - 1), str[n])

\* parseFloatFromTwips: the digits and dots of s read as a number of twips,
\* returned in points (result / 20.0)
parseFloatFromTwips(s) ==
    LET numStr == SelectSeq(s, LAMBDA r : r \in Digits \/ r = ".")
    IN IF Len(s) = 0 \/ Len(numStr) = 0 THEN FloatZero
       ELSE FloatDiv(parseFloatLoop(numStr, Len(numStr)).result, FloatFromInt(20))

SectPrOpen == <<"<", "w", ":", "s", "e", "c", "t", "P", "r">>
SectPrClose == <<"<", "/", "w", ":", "s", "e", "c", "t", "P", "r", ">">>
PgSzOpen == <<"<", "w", ":", "p", "g", "S", "z">>
PgMarOpen == <<"<", "w", ":", "p", "g", "M", "a", "r">>
SelfClose == <<"/", ">">>
Quote == <<"\"">>
LandscapeWord == <<"l", "a", "n", "d", "s", "c", "a", "p", "e">>
PortraitWord == <<"p", "o", "r", "t", "r", "a", "i", "t">>
ParagraphOpen == <<"<", "w", ":", "p", " ">>

\* fmt.Sprintf(`w:%s="`, attr)
AttrPrefix(attr) == <<"w", ":">> \o attr \o <<"=", "\"">>

\* text[start:]
After(text, start) == Slice(text, start, ByteLen(text))

\* text[start : start+rel] where rel is the offset strings.Index found in
\* text[start:], <<>> when it found none
UpTo(text, start, rel) == IF rel = -1 THEN <<>> ELSE Slice(text, start, start + rel)

\* the text from offset start (what strings.Index found for an opening) up to
\* the next close, <<>> when either is not found
BlockFrom(text, start, close) ==
    IF start = -1 THEN <<>> ELSE UpTo(text, start, Index(After(text, start), close))

\* content[sectStart : sectStart+sectEnd] of parseDocumentLayout
SectContent(content) == BlockFrom(content, Index(content, SectPrOpen), SectPrClose)

\* pgSzTag / pgMarTag: from the element's opening to the next "/>"
ElementTag(sectContent, open) == BlockFrom(sectContent, Index(sectContent, open), SelfClose)

NoValue == [found |-> FALSE, value |-> <<>>]

\* tag[start : start+end] where end is the offset of the closing quote
ValueUpTo(tag, start, end) ==
    IF end = -1 THEN NoValue ELSE [found |-> TRUE, value |-> Slice(tag, start, start + end)]

\* the attribute whose prefix strings.Index found at offset found; skip is
\* the length of the prefix
ValueFrom(tag, found, skip) ==
    IF found = -1 THEN NoValue
    ELSE ValueUpTo(tag, found + skip, Index(After(tag, found + skip), Quote))

\* the text between `w:<attr>="` and the next quote of the tag
AttrValue(tag, attr) == ValueFrom(tag, Index(tag, AttrPrefix(attr)), Len(attr) + 4)

\* `if v := parseFloatFromTwips(...); v > 0 { field = v }` for the attribute a
PositiveOr(v, default) == IF FloatGt(v, FloatZero) THEN v ELSE default

ParsedOr(a, default) ==
    IF a.found THEN PositiveOr(parseFloatFromTwips(a.value), default) ELSE default

\* `layout.Landscape = orientation == "landscape"` when the attribute is found
OrientationOf(a) == IF a.found THEN a.value = LandscapeWord ELSE getDefaultLayout.Landscape

\* the fields parseDocumentLayout reads from the two tags of the section
LayoutOfTags(pgSzTag, pgMarTag) ==
    [PageWidth    |-> ParsedOr(AttrValue(pgSzTag, <<"w">>), getDefaultLayout.PageWidth),
     PageHeight   |-> ParsedOr(AttrValue(pgSzTag, <<"h">>), getDefaultLayout.PageHeight),
     LeftMargin   |-> ParsedOr(AttrValue(pgMarTag, <<"l", "e", "f", "t">>), getDefaultLayout.LeftMargin),
     RightMargin  |-> ParsedOr(AttrValue(pgMarTag, <<"r", "i", "g", "h", "t">>), getDefaultLayout.RightMargin),
     TopMargin    |-> ParsedOr(AttrValue(pgMarTag, <<"t", "o", "p">>), getDefaultLayout.TopMargin),
     BottomMargin |-> ParsedOr(AttrValue(pgMarTag, <<"b", "o", "t", "t", "o", "m">>), getDefaultLayout.BottomMargin),
     LineHeight   |-> getDefaultLayout.LineHeight,
     Landscape    |-> OrientationOf(AttrValue(pgSzTag, <<"o", "r", "i", "e", "n", "t">>))]

SectionLayout(sectContent) ==
    LayoutOfTags(ElementTag(sectContent, PgSzOpen), ElementTag(sectContent, PgMarOpen))

\* parseDocumentLayout up to the orientation attribute (lines 496-578)
parseSection(content) == SectionLayout(SectContent(content))

\* lines 580-584 without the assignment
inferOrientationSkipped(layout_) == layout_

\* lines 580-584: width against height, unless Landscape is already set
inferOrientation(layout_) ==
    IF FloatGt(layout_.PageWidth, FloatZero) /\ FloatGt(layout_.PageHeight, FloatZero)
       /\ ~layout_.Landscape
    THEN [layout_ EXCEPT !.Landscape = FloatGt(layout_.PageWidth, layout_.PageHeight)]
    ELSE layout_

parseDocumentLayout(content) == inferOrientation(parseSection(content))

RECURSIVE findContainingParagraphLoop(_, _, _, _, _)
RECURSIVE paragraphAt(_, _, _, _, _, _)
\* the counting loop of findContainingParagraph; paragraphId is the n of "p<n>"
findContainingParagraphLoop(content, xmlPos, searchPos, paragraphCount, paragraphId) ==
    IF ~(searchPos < xmlPos /\ searchPos < ByteLen(content))
    THEN [paragraphCount |-> paragraphCount, ParagraphId |-> paragraphId]
    ELSE paragraphAt(content, xmlPos, searchPos, Index(After(content, searchPos), ParagraphOpen),
                     paragraphCount, paragraphId)

\* the body of the loop once strings.Index has returned rel
paragraphAt(content, xmlPos, searchPos, rel, paragraphCount, paragraphId) ==
    IF rel = -1 \/ rel + searchPos >= xmlPos
    THEN [paragraphCount |-> paragraphCount, ParagraphId |-> paragraphId]
    ELSE findContainingParagraphLoop(
             content, xmlPos, rel + searchPos + 1, paragraphCount + 1,
             IF Index(After(content, rel + searchPos), <<">">>) # -1
             THEN paragraphCount + 1 ELSE paragraphId)

\* ParagraphInfo after the loop: LineNumber is at least 1
ParagraphInfoOf(r) ==
    [LineNumber  |-> IF r.paragraphCount < 1 THEN 1 ELSE r.paragraphCount,
     X           |-> FloatZero,
     ParagraphId |-> r.ParagraphId]

findContainingParagraph(content, xmlPos) ==
    ParagraphInfoOf(findContainingParagraphLoop(content, xmlPos, 0, 0, 1))

\* findContainingParagraph slices content[:xmlPos]: it panics when xmlPos is out of range
findContainingParagraphPanics(content, xmlPos) == xmlPos < 0 \/ xmlPos > ByteLen(content)

\* pageNumber of lines 645-648 for the quotient q
PageNumberOf(q) == IF FloatToInt(q) + 1 < 1 THEN 1 ELSE FloatToInt(q) + 1

\* lines 645-653 once y and pageNumber are known
coordinatesOnPage(paragraphInfo, layout_, fused, y, pageNumber) ==
    [PageNumber |-> pageNumber,
     X |-> FloatAdd(layout_.LeftMargin, paragraphInfo.X),
     Y |-> FloatMulSub(fused, y, FloatFromInt(pageNumber - 1), layout_.PageHeight),
     ParagraphId |-> paragraphInfo.ParagraphId]

\* lines 642-653 once y is known
coordinatesFrom(paragraphInfo, layout_, fused, y) ==
    With(PageNumberOf(FloatDiv(y, layout_.PageHeight)),
         LAMBDA pageNumber : coordinatesOnPage(paragraphInfo, layout_, fused, y, pageNumber))

\* calculateCoordinates after findContainingParagraph.  A multiplication
\* followed by an addition or a subtraction is one fused instruction on some
\* builds and two roundings on the others: fused says which.
coordinatesAt(paragraphInfo, layout_, fused) ==
    With(FloatMulAdd(fused, FloatFromInt(paragraphInfo.LineNumber - 1),
                     layout_.LineHeight, layout_.TopMargin),
         LAMBDA y : coordinatesFrom(paragraphInfo, layout_, fused, y))

calculateCoordinates(xmlContent, xmlPos, layout_, fused) ==
    With(findContainingParagraph(xmlContent, xmlPos),
         LAMBDA paragraphInfo : coordinatesAt(paragraphInfo, layout_, fused))

\* the PlaceholderPosition the loop appends
Position(cleanText, startIndex, endIndex, xml, at) ==
    [Placeholder |-> Slice(cleanText, startIndex, endIndex),
     StartPos    |-> startIndex,
     EndPos      |-> endIndex,
     XMLStartPos |-> xml[1],
     XMLEndPos   |-> xml[2],
     X           |-> at.X,
     Y           |-> at.Y,
     PageNumber  |-> at.PageNumber,
     ParagraphId |-> at.ParagraphId]

RECURSIVE ScanLoop(_, _, _, _, _)
RECURSIVE ScanOpening(_, _, _, _, _, _)
RECURSIVE ScanToken(_, _, _, _, _, _)
\* lines 397-414: the position of the token cleanText[startIndex:endIndex]
TokenPosition(contentStr_, cleanText, layout_, fused, startIndex, endIndex) ==
    With(findXMLPositions(contentStr_, cleanText, startIndex, endIndex),
         LAMBDA xml :
             With(calculateCoordinates(contentStr_, xml[1], layout_, fused),
                  LAMBDA at : Position(cleanText, startIndex, endIndex, xml, at)))

\* ScanToken resuming right after the opening "{{" instead of after the token
ScanTokenResumeInside(contentStr_, cleanText, layout_, fused, startIndex, endRel) ==
    IF endRel = -1 THEN <<>>
    ELSE << TokenPosition(contentStr_, cleanText, layout_, fused,
                          startIndex, endRel + startIndex + 2) >>
         \o ScanLoop(contentStr_, cleanText, layout_, fused, startIndex + 2)

\* the loop body from the search of "}}" on: endRel is what strings.Index
\* returned in cleanText[startIndex:]
ScanToken(contentStr_, cleanText, layout_, fused, startIndex, endRel) ==
    IF endRel = -1 THEN <<>>
    ELSE << TokenPosition(contentStr_, cleanText, layout_, fused,
                          startIndex, endRel + startIndex + 2) >>
         \o ScanLoop(contentStr_, cleanText, layout_, fused, endRel + startIndex + 2)

\* the loop body once strings.Index has returned startRel in cleanText[cleanStart:]
ScanOpening(contentStr_, cleanText, layout_, fused, cleanStart, startRel) ==
    IF startRel = -1 THEN <<>>
    ELSE ScanToken(contentStr_, cleanText, layout_, fused, startRel + cleanStart,
                   Index(After(cleanText, startRel + cleanStart), RBraces))

\* the for loop of ExtractPlaceholdersWithPositions from resume offset cleanStart
ScanLoop(contentStr_, cleanText, layout_, fused, cleanStart) ==
    ScanOpening(contentStr_, cleanText, layout_, fused, cleanStart,
                Index(After(cleanText, cleanStart), LBraces))

\* the positions ExtractPlaceholdersWithPositions appends, when no iteration
\* panics; layout_ is what parseDocumentLayout(content) returned at line 377
ExtractPlaceholdersWithPositions(content, layout_, fused) ==
    ScanLoop(content, removeXMLTags(content), layout_, fused, 0)

\* calculateCoordinates -> findContainingParagraph panics for some token of pos
ExtractPanics(content, pos) ==
    \E k \in DOMAIN pos : findContainingParagraphPanics(content, pos[k].XMLStartPos)

RECURSIVE Dedup(_, _)
\* the loop of ExtractPlaceholders over positions with the seen map
Dedup(pos, seen) ==
    IF pos = <<>> THEN <<>>
    ELSE IF Head(pos).Placeholder \in seen THEN Dedup(Tail(pos), seen)
    ELSE <<Head(pos).Placeholder>> \o Dedup(Tail(pos), seen \cup {Head(pos).Placeholder})

\* ExtractPlaceholders without its seen map
ExtractPlaceholdersNoSeen(pos) == [k \in DOMAIN pos |-> pos[k].Placeholder]

ExtractPlaceholders(pos) == Dedup(pos, {})

(***************************************************************************)
(* processor/docx.go: the token replacer.  Positions are rune indexes      *)
(* (0-based) into []rune(content).                                         *)
(***************************************************************************)
RECURSIVE checkXMLSafeMatchLoop(_, _, _, _, _, _)
checkXMLSafeMatchLoop(content, startPos, placeholderRunes, pos, placeholderIdx, inTag) ==
    IF ~(pos < Len(content) /\ placeholderIdx < Len(placeholderRunes))
    THEN <<placeholderIdx = Len(placeholderRunes), pos>>
    ELSE LET char == content[pos + 1]
             mismatch == char # "<" /\ char # ">" /\ ~inTag
                         /\ char # placeholderRunes[placeholderIdx + 1]
             inTag2 == IF char = "<" THEN TRUE ELSE IF char = ">" THEN FALSE ELSE inTag
             idx2 == IF char # "<" /\ char # ">" /\ ~inTag THEN placeholderIdx + 1
                     ELSE placeholderIdx
         IN IF mismatch THEN <<FALSE, startPos>>
            ELSE IF (pos + 1) - startPos > Len(placeholderRunes) * 10 THEN <<FALSE, startPos>>
            ELSE checkXMLSafeMatchLoop(content, startPos, placeholderRunes, pos + 1, idx2, inTag2)

checkXMLSafeMatch(content, startPos, placeholderRunes) ==
    IF startPos >= Len(content) THEN <<FALSE, startPos>>
    ELSE checkXMLSafeMatchLoop(content, startPos, placeholderRunes, startPos, 0, FALSE)

RECURSIVE replaceXMLSafeSlowLoop(_, _, _, _)
replaceXMLSafeSlowLoop(contentRunes, placeholderRunes, value, i) ==
    IF ~(i < Len(contentRunes)) THEN <<>>
    ELSE LET m == checkXMLSafeMatch(contentRunes, i, placeholderRunes)
         IN IF m[1]
            THEN value \o replaceXMLSafeSlowLoop(contentRunes, placeholderRunes, value, m[2])
            ELSE <<contentRunes[i + 1]>>
                 \o replaceXMLSafeSlowLoop(contentRunes, placeholderRunes, value, i + 1)

replaceXMLSafeSlow(content, placeholder, value) ==
    IF Len(placeholder) = 0 THEN content
    ELSE replaceXMLSafeSlowLoop(content, placeholder, value, 0)

replaceWithXMLHandling(content, placeholder, value) ==
    IF Contains(content, placeholder) THEN ReplaceAll(content, placeholder, value)
    ELSE replaceXMLSafeSlow(content, placeholder, value)

(***************************************************************************)
(* Paths and the file system.  A path is the sequence of its components,   *)
(* absolute from the root; the process runs in Cwd.                        *)
(***************************************************************************)
Cwd == <<"srv", "app">>
TmpDir == <<"tmp">>

RECURSIVE Clean(_, _)
\* filepath.Clean applied component by component: ".." drops the last component
Clean(base, elems) ==
    IF elems = <<>> THEN base
    ELSE IF Head(elems) = ".."
         THEN Clean(IF base = <<>> THEN <<>> ELSE SubSeq(base, 1, Len(base) - 1), Tail(elems))
         ELSE Clean(Append(base, Head(elems)), Tail(elems))

\* filepath.Join(dir, name)
Join(dir, name) == Clean(dir, name)

\* filepath.Dir(path)
Dir(path) == IF path = <<>> THEN <<>> ELSE SubSeq(path, 1, Len(path) - 1)

IsUnder(path, dir) == HasPrefix(path, dir)

\* os.MkdirAll: the directory and every missing parent
MkdirAll(ds, path) == ds \cup {SubSeq(path, 1, n) : n \in 1..Len(path)}

\* os.WriteFile / io.Copy into a created file
WriteFile(fs, path, content) ==
    [p \in DOMAIN fs \cup {path} |-> IF p = path THEN content ELSE fs[p]]

\* os.RemoveAll(dir) on the files
RemoveAllFiles(fs, dir) == [p \in {q \in DOMAIN fs : ~IsUnder(q, dir)} |-> fs[p]]

\* os.RemoveAll(dir) on the directories
RemoveAllDirs(ds, dir) == {d \in ds : ~IsUnder(d, dir)}

NoFiles == [p \in {} |-> <<>>]

DocumentName == <<"word", "document.xml">>

\* filepath.Join(dp.tempDir, "word", "document.xml")
documentPath == Join(tempDir, DocumentName)

\* rank of a path component in the byte order filepath.Walk visits names in
NameRank(name) ==
    CASE name = ".." -> 0
      [] name = "app" -> 1
      [] name = "document.xml" -> 2
      [] name = "evil" -> 3
      [] name = "media" -> 4
      [] name = "other.xml" -> 5
      [] name = "srv" -> 6
      [] name = "temp_docx_1" -> 7
      [] name = "temp_docx_2" -> 8
      [] name = "tmp" -> 9
      [] name = "word" -> 10

RECURSIVE WalkBefore(_, _)
\* filepath.Walk reaches path p before path q (lexical order, a directory before its content)
WalkBefore(p, q) ==
    IF q = <<>> THEN FALSE
    ELSE IF p = <<>> THEN TRUE
    ELSE IF Head(p) = Head(q) THEN WalkBefore(Tail(p), Tail(q))
    ELSE NameRank(Head(p)) < NameRank(Head(q))

(***************************************************************************)
(* Inputs: containers, documents, data maps.                               *)
(***************************************************************************)
\* building blocks of the primary text part: "{{", "}}", a tag, a Thai letter
Pieces == { <<"{", "{">>, <<"}", "}">>, <<"<", "t", ">">>, <<"TH">> }

RECURSIVE DocsOf(_)
\* every text made of at most n pieces
DocsOf(n) ==
    IF n = 0 THEN {<<>>}
    ELSE LET prev == DocsOf(n - 1)
         IN prev \cup {d \o q : d \in prev, q \in Pieces}

Docs == DocsOf(MaxPieces)

FileEntry(name, content) ==
    [name |-> name, isDir |-> FALSE, fault |-> "none", content |-> content]

DirEntry(name) ==
    [name |-> name, isDir |-> TRUE, fault |-> "none", content |-> <<>>]

\* an entry whose data cannot be read: "open" fails in file.Open() (unsupported
\* method), "checksum" fails at the end of io.Copy (zip.ErrChecksum)
FaultyEntry(name, content, fault) ==
    [name |-> name, isDir |-> FALSE, fault |-> fault, content |-> content]

SampleDoc == <<"{", "{", "}", "}">>
EvilName == <<"..", "..", "evil">>
OtherName == <<"other.xml">>
MediaName == <<"word", "media">>

\* a well-formed template: the primary text part only
TemplateArchive(doc) == [valid |-> TRUE, entries |-> <<FileEntry(DocumentName, doc)>>]

\* containers that exercise the unpacker
OddArchives ==
    { [valid |-> FALSE, entries |-> <<>>],
      [valid |-> TRUE, entries |-> <<>>],
      [valid |-> TRUE, entries |-> <<DirEntry(<<"word">>), FileEntry(DocumentName, SampleDoc),
                                     FileEntry(OtherName, <<"t">>)>>],
      [valid |-> TRUE, entries |-> <<FileEntry(OtherName, <<"t">>)>>],
      [valid |-> TRUE, entries |-> <<FileEntry(DocumentName, SampleDoc),
                                     FileEntry(EvilName, <<"t">>)>>],
      [valid |-> TRUE, entries |-> <<DirEntry(EvilName), FileEntry(DocumentName, SampleDoc)>>],
      [valid |-> TRUE, entries |-> <<FileEntry(DocumentName, SampleDoc),
                                     FaultyEntry(OtherName, <<"t">>, "open")>>],
      [valid |-> TRUE, entries |-> <<FileEntry(DocumentName, SampleDoc),
                                     FaultyEntry(OtherName, <<"t">>, "checksum")>>],
      [valid |-> TRUE, entries |-> <<FileEntry(<<"word">>, <<"t">>),
                                     FileEntry(DocumentName, SampleDoc)>>],
      [valid |-> TRUE, entries |-> <<FileEntry(DocumentName, <<"t">>),
                                     DirEntry(MediaName)>>] }

(***************************************************************************)
(* Documents with paragraphs and section properties.                       *)
(***************************************************************************)
MaxParagraphs == 3

ParaAttrOpen == <<"<", "w", ":", "p", " ", "w", ":", "r", "s", "i", "d", "R", "=", "\"", "1", "\"", ">">>
ParaPlainOpen == <<"<", "w", ":", "p", ">">>
ParaClose == <<"<", "/", "w", ":", "p", ">">>

\* a paragraph with attributes holding a token, one holding plain text, and a
\* paragraph without attributes holding a token
Paragraphs ==
    { ParaAttrOpen \o SampleDoc \o ParaClose,
      ParaAttrOpen \o <<"t">> \o ParaClose,
      ParaPlainOpen \o SampleDoc \o ParaClose }

RECURSIVE BodiesOf(_)
\* every body of at most n paragraphs
BodiesOf(n) ==
    IF n = 0 THEN {<<>>}
    ELSE LET prev == BodiesOf(n - 1)
         IN prev \cup {b \o p : b \in prev, p \in Paragraphs}

SampleBody == ParaAttrOpen \o SampleDoc \o ParaClose

\* marks an attribute the element does not carry
NoAttr == <<"absent">>

Attr(attr, v) == IF v = NoAttr THEN <<>> ELSE <<" ">> \o AttrPrefix(attr) \o v \o Quote

PgSz(w, h, orient) ==
    PgSzOpen \o Attr(<<"w">>, w) \o Attr(<<"h">>, h) \o Attr(<<"o", "r", "i", "e", "n", "t">>, orient) \o SelfClose

PgMar(top, left) == PgMarOpen \o Attr(<<"t", "o", "p">>, top) \o Attr(<<"l", "e", "f", "t">>, left) \o SelfClose

Section(inner) == SectPrOpen \o <<">">> \o inner \o SectPrClose

Widths == {NoAttr, <<"1", "5", "8", "4", "0">>, <<"1", "2", "2", "4", "0">>, <<"0">>, <<"1", "2", "x", "4", "0">>}
Heights == {NoAttr, <<"1", "5", "8", "4", "0">>, <<"1", "2", "2", "4", "0">>, <<"1", "4", "4", "0">>, <<"4", "0", "0">>, <<"0">>, <<"7", "2", "0", ".", "5">>}
Orients == {NoAttr, LandscapeWord, PortraitWord}
Tops == {NoAttr, <<"7", "2", "0">>, <<"0">>, <<"-", "7", "2", "0">>, <<"7", "x", "2">>}
Lefts == {NoAttr, <<"7", "2", "0">>}

\* one paragraph and one section with every page size
SizeDocs == {SampleBody \o Section(PgSz(w, h, o)) : w \in Widths, h \in Heights, o \in Orients}

\* every body, without a section and with short pages
BodyDocs ==
    {b \o s : b \in BodiesOf(MaxParagraphs),
              s \in { <<>>,
                      Section(PgSz(NoAttr, <<"4", "0", "0">>, NoAttr)),
                      Section(PgSz(NoAttr, <<"1", "4", "4", "0">>, NoAttr) \o PgMar(<<"7", "2", "0">>, NoAttr)) }}

\* one paragraph and one section with every margin
MarginDocs ==
    {SampleBody \o Section(PgSz(<<"1", "2", "2", "4", "0">>, <<"1", "5", "8", "4", "0">>, NoAttr) \o PgMar(t, l)) :
        t \in Tops, l \in Lefts}

SectionSizes ==
    { PgSz(<<"1", "2", "2", "4", "0">>, <<"1", "5", "8", "4", "0">>, NoAttr),
      PgSz(<<"1", "5", "8", "4", "0">>, <<"1", "2", "2", "4", "0">>, NoAttr),
      PgSz(<<"1", "5", "8", "4", "0">>, <<"1", "2", "2", "4", "0">>, LandscapeWord),
      PgSz(<<"1", "2", "2", "4", "0">>, <<"1", "5", "8", "4", "0">>, PortraitWord) }

\* two sections: one after the first paragraph, one at the end of the body
TwoSectionDocs ==
    {SampleBody \o Section(a) \o SampleBody \o Section(b) : a \in SectionSizes, b \in SectionSizes}

\* one paragraph on short pages below a top margin of three page heights
ShortPageDocs ==
    {SampleBody \o Section(PgSz(NoAttr, h, NoAttr) \o PgMar(t, NoAttr)) :
        h \in {<<"1", "0", "4">>, <<"8", "5", "2">>},
        t \in {<<"3", "1", "2">>, <<"2", "5", "5", "6">>}}

LayoutDocs == SizeDocs \cup BodyDocs \cup MarginDocs \cup TwoSectionDocs \cup ShortPageDocs

\* well-formed templates whose text part has paragraphs and sections
LayoutArchives == {TemplateArchive(doc) : doc \in LayoutDocs}

(***************************************************************************)
(* Texts with angle brackets outside of well-formed tags.                  *)
(***************************************************************************)
MaxBrackets == 4

\* a tag, a token, a closing bracket on its own, an opening bracket on its own
BracketPieces == { <<"<", "t", ">">>, SampleDoc, <<">">>, <<"<">> }

RECURSIVE BracketDocsOf(_)
\* every text made of at most n such pieces
BracketDocsOf(n) ==
    IF n = 0 THEN {<<>>}
    ELSE {d \o q : d \in BracketDocsOf(n - 1), q \in BracketPieces \cup {<<>>}}

BracketArchives == {TemplateArchive(doc) : doc \in BracketDocsOf(MaxBrackets)}

Archives == {TemplateArchive(doc) : doc \in Docs} \cup OddArchives

\* keys a caller may send: a token literal, and a text that is not a token
DataKeys == { <<"{", "{", "}", "}">>, <<"TH">> }

DataValue(key) == IF key = <<"TH">> THEN <<"w">> ELSE <<"v">>

EmptyMap == [k \in {} |-> <<>>]

\* the caller sends nothing, or a value for every key of DataKeys
DataMaps == {EmptyMap, [k \in DataKeys |-> DataValue(k)]}

InitialDirs == {<<"srv">>, Cwd, TmpDir}

(***************************************************************************)
(* The service call.                                                       *)
(***************************************************************************)
\* the zero DocumentLayout: nothing parsed yet
NoLayout ==
    [PageWidth |-> FloatZero, PageHeight |-> FloatZero, LeftMargin |-> FloatZero,
     RightMargin |-> FloatZero, TopMargin |-> FloatZero, BottomMargin |-> FloatZero,
     LineHeight |-> FloatZero, Landscape |-> FALSE]

\* no run of replaceXMLSafeSlow is modelled
IdleSlow ==
    [phase |-> "idle", content |-> <<>>, placeholder |-> <<>>, value |-> <<>>,
     i |-> 0, result |-> <<>>, startPos |-> 0, pos |-> 0, placeholderIdx |-> 0,
     inTag |-> FALSE, inspected |-> 0]

\* no concurrent call is modelled
NoJobs == <<>>

\* no upload, no cleanup service and no conversion is modelled
IdleStore == [phase |-> "idle"]
IdleSvc == [caller |-> "none"]
IdleRetry == [phase |-> "idle"]
NoServices == store = IdleStore /\ svc = IdleSvc /\ retry = IdleRetry

\* the state at the entry of a service call, but for the container
InitCall ==
    /\ \/ call = "UploadTemplate" /\ data = EmptyMap
       \/ call = "ProcessDocument" /\ data \in DataMaps
    /\ now = 1
    /\ pc = "start"
    /\ result = "none"
    /\ tempDir = <<>>
    /\ dirs = InitialDirs
    /\ files = NoFiles
    /\ outputFile = [exists |-> FALSE, entries |-> {}]
    /\ extractIdx = 0
    /\ deferred = {}
    /\ positions = <<>>
    /\ placeholders = <<>>
    /\ completeData = EmptyMap
    /\ contentStr = <<>>
    /\ pending = {}
    /\ lastIn = <<>>
    /\ lastKey = <<>>
    /\ layout = NoLayout
    /\ landscape = "none"
    /\ slow = IdleSlow
    /\ jobs = NoJobs
    /\ NoServices

Init == archive \in Archives /\ InitCall

\* a service call on a template with paragraphs and sections
InitLayout == archive \in LayoutArchives /\ InitCall

inputs == <<archive, call, data, now>>
textVars == <<positions, placeholders, completeData, contentStr, pending, lastIn, lastKey>>
layoutVars == <<layout, landscape>>
others == <<slow, jobs, store, svc, retry>>

\* fmt.Sprintf("temp_docx_%d", time.Now().UnixNano()), relative to the working directory
TempDirName(t) == IF t = 1 THEN "temp_docx_1" ELSE "temp_docx_2"

NewDocxProcessor ==
    /\ pc = "start"
    /\ tempDir' = Append(Cwd, TempDirName(now))
    /\ pc' = "unzip"
    /\ UNCHANGED <<inputs, others, layoutVars, result, dirs, files, outputFile, extractIdx, deferred, textVars>>

\* UnzipDocx up to its loop: zip.OpenReader, os.MkdirAll(dp.tempDir); the caller
\* registers defer proc.Cleanup() only after UnzipDocx returned nil
UnzipOpen ==
    /\ pc = "unzip"
    /\ IF ~archive.valid
       THEN /\ pc' = "returning" /\ result' = "error"
            /\ UNCHANGED <<dirs, extractIdx, deferred>>
       ELSE /\ dirs' = MkdirAll(dirs, tempDir)
            /\ extractIdx' = 1
            /\ IF archive.entries = <<>>
               THEN pc' = "scan" /\ deferred' = deferred \cup {"Cleanup"}
               ELSE pc' = "extract" /\ UNCHANGED deferred
            /\ UNCHANGED result
    /\ UNCHANGED <<inputs, others, layoutVars, tempDir, files, outputFile, textVars>>

\* extractFile: the error it returns and the disk it leaves
extractFile(file, ds, fs) ==
    LET path == Join(tempDir, file.name)
        ds2 == MkdirAll(ds, Dir(path))
        blocked == path \in ds \/ \E n \in 1..(Len(path) - 1) : SubSeq(path, 1, n) \in DOMAIN fs
    IN IF file.fault = "open" THEN [err |-> TRUE, dirs |-> ds, files |-> fs]
       ELSE IF file.isDir THEN [err |-> FALSE, dirs |-> MkdirAll(ds, path), files |-> fs]
       ELSE IF blocked THEN [err |-> TRUE, dirs |-> ds, files |-> fs]
       ELSE [err |-> file.fault = "checksum", dirs |-> ds2,
             files |-> WriteFile(fs, path, file.content)]

\* one iteration of UnzipDocx's loop over reader.File
UnzipEntry ==
    /\ pc = "extract"
    /\ extractIdx <= Len(archive.entries)
    /\ LET r == extractFile(archive.entries[extractIdx], dirs, files)
       IN /\ dirs' = r.dirs
          /\ files' = r.files
          /\ IF r.err
             THEN /\ pc' = "returning" /\ result' = "error"
                  /\ UNCHANGED <<extractIdx, deferred>>
             ELSE /\ extractIdx' = extractIdx + 1
                  /\ IF extractIdx = Len(archive.entries)
                     THEN pc' = "scan" /\ deferred' = deferred \cup {"Cleanup"}
                     ELSE pc' = "extract" /\ UNCHANGED deferred
                  /\ UNCHANGED result
    /\ UNCHANGED <<inputs, others, layoutVars, tempDir, outputFile, textVars>>

\* proc.ExtractPlaceholders() and the caller's error check
ExtractPlaceholdersCall ==
    /\ pc = "scan"
    /\ IF documentPath \notin DOMAIN files
       THEN /\ pc' = "returning" /\ result' = "error"
            /\ UNCHANGED <<positions, placeholders, layout>>
       ELSE \E fused \in BOOLEAN :
            \E parsed \in {parseDocumentLayout(files[documentPath])} :
            \E pos \in {ExtractPlaceholdersWithPositions(files[documentPath], parsed, fused)} :
              IF ExtractPanics(files[documentPath], pos)
              THEN /\ pc' = "returning" /\ result' = "panic"
                   /\ UNCHANGED <<positions, placeholders, layout>>
              ELSE /\ layout' = parsed
                   /\ positions' = pos
                   /\ placeholders' = ExtractPlaceholders(pos)
                   /\ pc' = IF call = "UploadTemplate" THEN "save" ELSE "prepare"
                   /\ UNCHANGED result
    /\ UNCHANGED <<inputs, others, landscape, tempDir, dirs, files, outputFile, extractIdx, deferred,
                   completeData, contentStr, pending, lastIn, lastKey>>

\* UploadTemplate after the extraction: marshal, internal.DB.Create
UploadTemplateSave ==
    /\ pc = "save"
    /\ \E ok \in BOOLEAN : result' = IF ok THEN "ok" ELSE "error"
    /\ pc' = "returning"
    /\ UNCHANGED <<inputs, others, layoutVars, tempDir, dirs, files, outputFile, extractIdx, deferred, textVars>>

Range(seq) == {seq[k] : k \in DOMAIN seq}

\* a loop over the caller's keys as well as the scanned ones
PrepareCompleteDataAll(phs, d) ==
    [p \in Range(phs) \cup DOMAIN d |-> IF p \in DOMAIN d THEN d[p] ELSE <<>>]

\* the completeData loop of ProcessDocument
PrepareCompleteData(phs, d) ==
    [p \in Range(phs) |-> IF p \in DOMAIN d THEN d[p] ELSE <<>>]

PrepareData ==
    /\ pc = "prepare"
    /\ completeData' = PrepareCompleteData(placeholders, data)
    /\ pc' = "replace"
    /\ UNCHANGED <<inputs, others, layoutVars, result, tempDir, dirs, files, outputFile, extractIdx, deferred,
                   positions, placeholders, contentStr, pending, lastIn, lastKey>>

\* FindAndReplaceInDocument: os.ReadFile(documentPath)
FindAndReplaceRead ==
    /\ pc = "replace"
    /\ IF documentPath \notin DOMAIN files
       THEN /\ pc' = "returning" /\ result' = "error"
            /\ UNCHANGED <<contentStr, pending>>
       ELSE /\ contentStr' = files[documentPath]
            /\ pending' = DOMAIN completeData
            /\ pc' = "replace_loop"
            /\ UNCHANGED result
    /\ UNCHANGED <<inputs, others, layoutVars, tempDir, dirs, files, outputFile, extractIdx, deferred,
                   positions, placeholders, completeData, lastIn, lastKey>>

\* one iteration of `for placeholder, value := range placeholders`: Go visits the
\* keys of a map in an unspecified order
FindAndReplaceStep ==
    /\ pc = "replace_loop"
    /\ \E placeholder \in pending :
         /\ contentStr' = replaceWithXMLHandling(contentStr, placeholder, completeData[placeholder])
         /\ lastIn' = contentStr
         /\ lastKey' = placeholder
         /\ pending' = pending \ {placeholder}
    /\ UNCHANGED <<inputs, others, layoutVars, pc, result, tempDir, dirs, files, outputFile, extractIdx, deferred,
                   positions, placeholders, completeData>>

\* FindAndReplaceInDocument: os.WriteFile(documentPath), which may fail
FindAndReplaceWrite ==
    /\ pc = "replace_loop"
    /\ pending = {}
    /\ \E ok \in BOOLEAN :
         IF ok
         THEN /\ files' = WriteFile(files, documentPath, contentStr)
              /\ pc' = "rezip"
              /\ UNCHANGED result
         ELSE /\ pc' = "returning" /\ result' = "error"
              /\ UNCHANGED files
    /\ UNCHANGED <<inputs, others, layoutVars, tempDir, dirs, outputFile, extractIdx, deferred, textVars>>

\* the regular files filepath.Walk(dp.tempDir) visits
WorkspaceFiles == {p \in DOMAIN files : IsUnder(p, tempDir)}

\* filepath.ToSlash(filepath.Rel(dp.tempDir, path))
Rel(path) == SubSeq(path, Len(tempDir) + 1, Len(path))

ZipEntry(path) == [name |-> Rel(path), content |-> files[path]]

\* ReZipDocx: os.Create (which may fail), then one entry per regular file; the
\* walk stops at the first file os.Open cannot read, after zipWriter.Create
\* has already added that file's (empty) entry
ReZipDocx ==
    /\ pc = "rezip"
    /\ \/ /\ outputFile' = [exists |-> TRUE, entries |-> {ZipEntry(p) : p \in WorkspaceFiles}]
          /\ pc' = "upload"
          /\ UNCHANGED result
       \/ /\ UNCHANGED outputFile
          /\ pc' = "returning" /\ result' = "error"
       \/ \E bad \in WorkspaceFiles :
            /\ outputFile' = [exists |-> TRUE,
                              entries |-> {ZipEntry(p) : p \in {q \in WorkspaceFiles : WalkBefore(q, bad)}}
                                          \cup {[name |-> Rel(bad), content |-> <<>>]}]
            /\ pc' = "returning" /\ result' = "error"
    /\ UNCHANGED <<inputs, others, layoutVars, tempDir, dirs, files, extractIdx, deferred, textVars>>

\* DetectOrientation on the workspace of the call
DetectOrientation ==
    IF documentPath \notin DOMAIN files THEN "none"
    ELSE IF parseDocumentLayout(files[documentPath]).Landscape THEN "landscape"
    ELSE "portrait"

\* ProcessDocument after ReZipDocx: os.Open(tempOutputFile), defer os.Remove,
\* upload, DetectOrientation before the conversion (skipped when the upload
\* failed or no PDF service is configured) and save the record
UploadAndSave ==
    /\ pc = "upload"
    /\ deferred' = deferred \cup {"RemoveOutput"}
    /\ \E detect \in BOOLEAN : landscape' = IF detect THEN DetectOrientation ELSE landscape
    /\ \E ok \in BOOLEAN : result' = IF ok THEN "ok" ELSE "error"
    /\ pc' = "returning"
    /\ UNCHANGED <<inputs, others, layout, tempDir, dirs, files, outputFile, extractIdx, textVars>>

\* DocxProcessor.Cleanup
Cleanup(fs) == RemoveAllFiles(fs, tempDir)

\* the return of the service call: the deferred calls run, also while panicking
Return ==
    /\ pc = "returning"
    /\ files' = IF "Cleanup" \in deferred THEN Cleanup(files) ELSE files
    /\ dirs' = IF "Cleanup" \in deferred THEN RemoveAllDirs(dirs, tempDir) ELSE dirs
    /\ outputFile' = IF "RemoveOutput" \in deferred THEN [exists |-> FALSE, entries |-> {}]
                     ELSE outputFile
    /\ pc' = "returned"
    /\ UNCHANGED <<inputs, others, layoutVars, result, tempDir, extractIdx, deferred, textVars>>

Next ==
    \/ NewDocxProcessor
    \/ UnzipOpen
    \/ UnzipEntry
    \/ ExtractPlaceholdersCall
    \/ UploadTemplateSave
    \/ PrepareData
    \/ FindAndReplaceRead
    \/ FindAndReplaceStep
    \/ FindAndReplaceWrite
    \/ ReZipDocx
    \/ UploadAndSave
    \/ Return

Spec == Init /\ [][Next]_vars

SpecLayout == InitLayout /\ [][Next]_vars

\* a service call on a template whose text has brackets outside of tags
InitBrackets == archive \in BracketArchives /\ InitCall

SpecBrackets == InitBrackets /\ [][Next]_vars

(***************************************************************************)
(* replaceXMLSafeSlow, one step at a time.  slow.inspected counts the      *)
(* reads of content[pos] of the running match attempt.                     *)
(***************************************************************************)
MaxRun == 36

Rep(c, n) == [k \in 1..n |-> c]

\* (content, placeholder) pairs: the placeholder split by a tag of n name runes
\* after its first rune, preceded by such a tag, and cut short after the tag
SlowPlaceholders == { <<"a">>, <<"{", "{", "}", "}">> }

RunLengths == {0, 1} \cup ((MaxRun - 3)..MaxRun)

TagRun(n) == <<"<">> \o Rep("t", n) \o <<">">>

\* the placeholder p with a tag of n name runes after its first rune
SplitBy(p, n) == <<Head(p)>> \o TagRun(n) \o Tail(p)

SlowContents(p) ==
    UNION { { SplitBy(p, n) \o <<"x">>,
              <<"x">> \o TagRun(n) \o p,
              <<Head(p)>> \o TagRun(n) \o <<"x">> \o Tail(p),
              <<Head(p)>> \o <<"<">> \o Rep("t", n),
              <<"x">> \o TagRun(n) \o <<"x">>,
              p \o SplitBy(p, n) } : n \in RunLengths }

\* texts with two or three occurrences of the placeholder: as it is, split by
\* a short tag and split by a tag of n name runes
SkipContents(p) ==
    UNION { { SplitBy(p, n) \o SplitBy(p, 1),
              SplitBy(p, 1) \o <<"x">> \o SplitBy(p, n),
              p \o <<"x">> \o SplitBy(p, n),
              p \o SplitBy(p, 1) \o SplitBy(p, n) } : n \in RunLengths }

\* every field of the service call, which does not run
NoCall ==
    /\ archive = TemplateArchive(SampleDoc)
    /\ call = "ProcessDocument"
    /\ data = EmptyMap
    /\ now = 1
    /\ pc = "none"
    /\ result = "none"
    /\ tempDir = <<>>
    /\ dirs = InitialDirs
    /\ files = NoFiles
    /\ outputFile = [exists |-> FALSE, entries |-> {}]
    /\ extractIdx = 0
    /\ deferred = {}
    /\ positions = <<>>
    /\ placeholders = <<>>
    /\ completeData = EmptyMap
    /\ contentStr = <<>>
    /\ pending = {}
    /\ lastIn = <<>>
    /\ lastKey = <<>>
    /\ layout = NoLayout
    /\ landscape = "none"

coreState == <<inputs, layoutVars, pc, result, tempDir, dirs, files, outputFile, extractIdx,
               deferred, textVars>>
callState == <<coreState, store, svc, retry>>

\* the entry of replaceWithXMLHandling with a placeholder of at least one rune
InitSlow ==
    /\ NoCall
    /\ NoServices
    /\ jobs = NoJobs
    /\ \E p \in SlowPlaceholders : \E c \in SlowContents(p) :
         slow = [IdleSlow EXCEPT !.phase = "entry", !.content = c, !.placeholder = p,
                                 !.value = <<"v">>]

\* replaceWithXMLHandling: the placeholder occurs as it is, strings.ReplaceAll
SlowDirect ==
    /\ slow.phase = "entry"
    /\ Contains(slow.content, slow.placeholder)
    /\ slow' = [slow EXCEPT !.phase = "done",
                            !.result = ReplaceAll(slow.content, slow.placeholder, slow.value)]
    /\ UNCHANGED <<callState, jobs>>

\* replaceWithXMLHandling: no exact match, the call of replaceXMLSafeSlow
SlowEnter ==
    /\ slow.phase = "entry"
    /\ ~Contains(slow.content, slow.placeholder)
    /\ slow' = [slow EXCEPT !.phase = "scan"]
    /\ UNCHANGED <<callState, jobs>>

\* `for i < len(contentRunes)` is over: return string(result)
SlowReturn ==
    /\ slow.phase = "scan"
    /\ ~(slow.i < Len(slow.content))
    /\ slow' = [slow EXCEPT !.phase = "done"]
    /\ UNCHANGED <<callState, jobs>>

\* the call checkXMLSafeMatch(contentRunes, i, placeholderRunes), up to its loop
SlowAttempt ==
    /\ slow.phase = "scan"
    /\ slow.i < Len(slow.content)
    /\ slow' = [slow EXCEPT !.phase = "match", !.startPos = slow.i, !.pos = slow.i,
                            !.placeholderIdx = 0, !.inTag = FALSE, !.inspected = 0]
    /\ UNCHANGED <<callState, jobs>>

\* one iteration of the loop of checkXMLSafeMatch but for its bound
SlowInspectUnbounded(char) ==
    IF char = "<" THEN [slow EXCEPT !.inTag = TRUE, !.pos = @ + 1, !.inspected = @ + 1]
    ELSE IF char = ">" THEN [slow EXCEPT !.inTag = FALSE, !.pos = @ + 1, !.inspected = @ + 1]
    ELSE IF slow.inTag THEN [slow EXCEPT !.pos = @ + 1, !.inspected = @ + 1]
    ELSE IF char = slow.placeholder[slow.placeholderIdx + 1]
    THEN [slow EXCEPT !.placeholderIdx = @ + 1, !.pos = @ + 1, !.inspected = @ + 1]
    ELSE [slow EXCEPT !.phase = "nomatch", !.inspected = @ + 1]

\* no bound: every attempt runs until it matches, mismatches or the text ends
SlowBoundNone(next) == next

\* the bound after pos++: `if pos - startPos > len(placeholderRunes) * 10`
SlowBound(next) ==
    IF next.phase = "match" /\ next.pos - next.startPos > Len(next.placeholder) * 10
    THEN [next EXCEPT !.phase = "nomatch"]
    ELSE next

\* one iteration of the loop of checkXMLSafeMatch
SlowInspect ==
    /\ slow.phase = "match"
    /\ slow.pos < Len(slow.content) /\ slow.placeholderIdx < Len(slow.placeholder)
    /\ slow' = SlowBound(SlowInspectUnbounded(slow.content[slow.pos + 1]))
    /\ UNCHANGED <<callState, jobs>>

\* the loop of checkXMLSafeMatch is over: return placeholderIdx == len(placeholderRunes), pos
SlowMatchEnd ==
    /\ slow.phase = "match"
    /\ ~(slow.pos < Len(slow.content) /\ slow.placeholderIdx < Len(slow.placeholder))
    /\ slow' = [slow EXCEPT !.phase = IF slow.placeholderIdx = Len(slow.placeholder)
                                      THEN "matched" ELSE "nomatch"]
    /\ UNCHANGED <<callState, jobs>>

\* match: append the value and continue at matchEnd
SlowReplace ==
    /\ slow.phase = "matched"
    /\ slow' = [slow EXCEPT !.phase = "scan", !.result = @ \o slow.value, !.i = slow.pos]
    /\ UNCHANGED <<callState, jobs>>

\* no match: append contentRunes[i] and i++
SlowCopy ==
    /\ slow.phase = "nomatch"
    /\ slow' = [slow EXCEPT !.phase = "scan", !.result = Append(@, slow.content[slow.i + 1]),
                            !.i = @ + 1]
    /\ UNCHANGED <<callState, jobs>>

NextSlow ==
    \/ SlowDirect
    \/ SlowEnter
    \/ SlowAttempt
    \/ SlowInspect
    \/ SlowMatchEnd
    \/ SlowReplace
    \/ SlowCopy
    \/ SlowReturn

\* the function runs on one goroutine, which the scheduler keeps running
SpecSlow == InitSlow /\ [][NextSlow]_vars /\ WF_vars(NextSlow)

\* replaceWithXMLHandling on texts with several occurrences of the placeholder
InitSkip ==
    /\ NoCall
    /\ NoServices
    /\ jobs = NoJobs
    /\ \E p \in SlowPlaceholders : \E c \in SkipContents(p) :
         slow = [IdleSlow EXCEPT !.phase = "entry", !.content = c, !.placeholder = p,
                                 !.value = <<"v">>]

SpecSkip == InitSkip /\ [][NextSlow]_vars

RECURSIVE ApplyInOrder(_, _, _)
\* the loop of FindAndReplaceInDocument visiting the keys in the order of the sequence keys
ApplyInOrder(text, keys, map) ==
    IF keys = <<>> THEN text
    ELSE ApplyInOrder(replaceWithXMLHandling(text, Head(keys), map[Head(keys)]), Tail(keys), map)

(***************************************************************************)
(* Concurrent ProcessDocument calls, one step per stage, on the shared     *)
(* disk and clock.  ctx is the caller's context of each call.              *)
(***************************************************************************)
Jobs == {1, 2}

Clock == {1, 2}

\* the template and the data of each call
JobDoc(j) == (IF j = 1 THEN <<"a">> ELSE <<"b">>) \o SampleDoc

JobData(j) == [k \in {SampleDoc} |-> IF j = 1 THEN <<"v">> ELSE <<"w">>]

\* the stages of ProcessDocument on its DocxProcessor
Stages == {"unzip", "scan", "replace", "rezip"}

NewJob ==
    [pc |-> "new", tempDir |-> <<>>, cancelled |-> FALSE, result |-> "none",
     deferred |-> FALSE, completeData |-> EmptyMap, output |-> {}]

InitJobs ==
    /\ NoCall
    /\ NoServices
    /\ slow = IdleSlow
    /\ jobs = [j \in Jobs |-> NewJob]

\* the job is between NewDocxProcessor and the end of its deferred Cleanup
Live(j) == jobs[j].pc \notin {"new", "returned"}

JobPath(j) == Join(jobs[j].tempDir, DocumentName)

\* time passes
Tick ==
    /\ \E t \in Clock : t > now /\ now' = t
    /\ UNCHANGED <<archive, call, data, layoutVars, pc, result, tempDir, dirs, files, outputFile,
                   extractIdx, deferred, textVars, others>>

\* the caller cancels the context of a call that has not returned
JobCancel(j) ==
    /\ jobs[j].pc # "returned"
    /\ ~jobs[j].cancelled
    /\ jobs' = [jobs EXCEPT ![j].cancelled = TRUE]
    /\ UNCHANGED <<callState, slow>>

\* processor.NewDocxProcessor(tempInputFile, tempOutputFile)
JobNew(j) ==
    /\ jobs[j].pc = "new"
    /\ jobs' = [jobs EXCEPT ![j].tempDir = Append(Cwd, TempDirName(now)), ![j].pc = "unzip"]
    /\ UNCHANGED <<callState, slow>>

\* proc.UnzipDocx() of a well-formed container, then defer proc.Cleanup()
JobUnzip(j) ==
    /\ jobs[j].pc = "unzip"
    /\ dirs' = MkdirAll(dirs, Dir(JobPath(j)))
    /\ files' = WriteFile(files, JobPath(j), JobDoc(j))
    /\ jobs' = [jobs EXCEPT ![j].pc = "scan", ![j].deferred = TRUE]
    /\ UNCHANGED <<inputs, layoutVars, pc, result, tempDir, outputFile, extractIdx, deferred,
                   textVars, slow, store, svc, retry>>

\* proc.ExtractPlaceholders() and the completeData loop
JobScan(j) ==
    /\ jobs[j].pc = "scan"
    /\ IF JobPath(j) \notin DOMAIN files
       THEN jobs' = [jobs EXCEPT ![j].pc = "returning", ![j].result = "error"]
       ELSE \E parsed \in {parseDocumentLayout(files[JobPath(j)])} :
            \E pos \in {ExtractPlaceholdersWithPositions(files[JobPath(j)], parsed, FALSE)} :
              jobs' = [jobs EXCEPT ![j].pc = "replace",
                                   ![j].completeData =
                                       PrepareCompleteData(ExtractPlaceholders(pos), JobData(j))]
    /\ UNCHANGED <<callState, slow>>

\* the orders in which `range` may visit the keys of a map
KeyOrders(keys) == {s \in [1..Cardinality(keys) -> keys] : Range(s) = keys}

\* proc.FindAndReplaceInDocument(completeData)
JobReplace(j) ==
    /\ jobs[j].pc = "replace"
    /\ IF JobPath(j) \notin DOMAIN files
       THEN /\ jobs' = [jobs EXCEPT ![j].pc = "returning", ![j].result = "error"]
            /\ UNCHANGED files
       ELSE /\ \E keys \in KeyOrders(DOMAIN jobs[j].completeData) :
                 files' = WriteFile(files, JobPath(j),
                                    ApplyInOrder(files[JobPath(j)], keys, jobs[j].completeData))
            /\ jobs' = [jobs EXCEPT ![j].pc = "rezip"]
    /\ UNCHANGED <<inputs, layoutVars, pc, result, tempDir, dirs, outputFile, extractIdx, deferred,
                   textVars, slow, store, svc, retry>>

\* proc.ReZipDocx(): one entry per regular file of the workspace
JobReZip(j) ==
    /\ jobs[j].pc = "rezip"
    /\ jobs' = [jobs EXCEPT ![j].pc = "returning", ![j].result = "ok",
                            ![j].output = {[name |-> SubSeq(p, Len(jobs[j].tempDir) + 1, Len(p)),
                                            content |-> files[p]] :
                                           p \in {q \in DOMAIN files : IsUnder(q, jobs[j].tempDir)}}]
    /\ UNCHANGED <<callState, slow>>

\* the return of the call: the deferred proc.Cleanup() runs
JobReturn(j) ==
    /\ jobs[j].pc = "returning"
    /\ files' = IF jobs[j].deferred THEN RemoveAllFiles(files, jobs[j].tempDir) ELSE files
    /\ dirs' = IF jobs[j].deferred THEN RemoveAllDirs(dirs, jobs[j].tempDir) ELSE dirs
    /\ jobs' = [jobs EXCEPT ![j].pc = "returned"]
    /\ UNCHANGED <<inputs, layoutVars, pc, result, tempDir, outputFile, extractIdx, deferred,
                   textVars, slow, store, svc, retry>>

NextJobs ==
    \/ Tick
    \/ \E j \in Jobs : JobCancel(j)
    \/ \E j \in Jobs : JobNew(j)
    \/ \E j \in Jobs : JobUnzip(j)
    \/ \E j \in Jobs : JobScan(j)
    \/ \E j \in Jobs : JobReplace(j)
    \/ \E j \in Jobs : JobReZip(j)
    \/ \E j \in Jobs : JobReturn(j)

SpecJobs == InitJobs /\ [][NextJobs]_vars

(***************************************************************************)
(* ProcessDocument from the upload of the processed DOCX on: the bucket,   *)
(* the deletes it issues and the document records.                         *)
(***************************************************************************)
\* storage.GenerateDocumentObjectName(documentID, template.Filename)
ObjectName == "documents/d/1_t.docx"

\* storage.GenerateDocumentPDFObjectName(documentID, template.Filename): a
\* name of its own for the PDF of the document
PdfObjectName == "documents/d/1_t.pdf"

\* objects and records other calls have left
OtherObjects == {"documents/o/1_t.docx", "documents/o/1_t.pdf"}
OtherRecords == {[GCSPathDocx |-> "documents/o/1_t.docx", GCSPathPdf |-> "documents/o/1_t.pdf"]}

NoDocument == [GCSPathDocx |-> "", GCSPathPdf |-> ""]

\* ProcessDocument has written the output container and is about to open it
InitStore ==
    /\ NoCall
    /\ slow = IdleSlow
    /\ jobs = NoJobs
    /\ svc = IdleSvc
    /\ retry = IdleRetry
    /\ \E service \in BOOLEAN : \E objects \in SUBSET OtherObjects : \E rows \in SUBSET OtherRecords :
         store = [phase |-> "upload", pdfService |-> service, bucket |-> objects,
                  uploaded |-> {}, deletes |-> {}, pdfObjectName |-> "", pdfGCSPath |-> "",
                  records |-> rows, returned |-> "none", document |-> NoDocument]

\* os.Open(tempOutputFile) and the upload of the DOCX; either may fail
StoreUploadDocx ==
    /\ store.phase = "upload"
    /\ \E opened \in BOOLEAN : \E ok \in BOOLEAN :
         IF opened /\ ok
         THEN store' = [store EXCEPT !.phase = "pdf",
                                     !.bucket = @ \cup {ObjectName},
                                     !.uploaded = @ \cup {ObjectName}]
         ELSE store' = [store EXCEPT !.phase = "done", !.returned = "error"]
    /\ UNCHANGED <<coreState, slow, jobs, svc, retry>>

\* the conversion to PDF: skipped without a PDF service, and when the DOCX
\* cannot be reopened or the conversion fails
StoreConvert ==
    /\ store.phase = "pdf"
    /\ \E reopened \in BOOLEAN : \E converted \in BOOLEAN :
         store' = [store EXCEPT !.phase = IF store.pdfService /\ reopened /\ converted
                                          THEN "pdf_upload" ELSE "marshal"]
    /\ UNCHANGED <<coreState, slow, jobs, svc, retry>>

\* os.Open(tempPDFPath) and the upload of the PDF: a failed upload clears pdfObjectName
StoreUploadPdf ==
    /\ store.phase = "pdf_upload"
    /\ \E opened \in BOOLEAN : \E ok \in BOOLEAN :
         IF ~opened THEN store' = [store EXCEPT !.phase = "marshal"]
         ELSE IF ok
         THEN store' = [store EXCEPT !.phase = "marshal",
                                     !.pdfObjectName = PdfObjectName,
                                     !.pdfGCSPath = PdfObjectName,
                                     !.bucket = @ \cup {PdfObjectName},
                                     !.uploaded = @ \cup {PdfObjectName}]
         ELSE store' = [store EXCEPT !.phase = "marshal", !.pdfObjectName = ""]
    /\ UNCHANGED <<coreState, slow, jobs, svc, retry>>

\* the deletes of a failure
FailureDeletesDocxOnly(st) == {ObjectName}

\* the DeleteFile calls after a failed marshal or a failed save
FailureDeletes(st) ==
    {ObjectName} \cup (IF st.pdfObjectName # "" THEN {st.pdfObjectName} ELSE {})

\* the return of an error after the deletes; the result of DeleteFile is
\* ignored, gone are the objects whose delete succeeded
StoreFail(st, names, gone) ==
    [st EXCEPT !.phase = "done", !.returned = "error",
               !.deletes = @ \cup names, !.bucket = @ \ gone]

\* json.Marshal(completeData)
StoreMarshal ==
    /\ store.phase = "marshal"
    /\ \E ok \in BOOLEAN :
         IF ok THEN store' = [store EXCEPT !.phase = "save"]
         ELSE \E gone \in SUBSET FailureDeletes(store) :
                store' = StoreFail(store, FailureDeletes(store), gone)
    /\ UNCHANGED <<coreState, slow, jobs, svc, retry>>

\* the record ProcessDocument builds at lines 552-562
DocumentOf(st) == [GCSPathDocx |-> ObjectName, GCSPathPdf |-> st.pdfGCSPath]

\* internal.DB.Create(document)
StoreSave ==
    /\ store.phase = "save"
    /\ \E ok \in BOOLEAN :
         IF ok
         THEN store' = [store EXCEPT !.phase = "done", !.returned = "document",
                                     !.document = DocumentOf(store),
                                     !.records = @ \cup {DocumentOf(store)}]
         ELSE \E gone \in SUBSET FailureDeletes(store) :
                store' = StoreFail(store, FailureDeletes(store), gone)
    /\ UNCHANGED <<coreState, slow, jobs, svc, retry>>

NextStore ==
    \/ StoreUploadDocx
    \/ StoreConvert
    \/ StoreUploadPdf
    \/ StoreMarshal
    \/ StoreSave

SpecStore == InitStore /\ [][NextStore]_vars

(***************************************************************************)
(* FileCleanupService: one caller that calls Start and Stop in any order,  *)
(* the goroutines Start launches, the tickers and the unbuffered channel   *)
(* done.  A caller inside Stop is blocked at `fcs.done <- true` until a    *)
(* goroutine receives.                                                     *)
(***************************************************************************)
MaxCalls == 3

\* NewFileCleanupService: no ticker, no goroutine, an empty unbuffered done
InitCleanup ==
    /\ NoCall
    /\ slow = IdleSlow
    /\ jobs = NoJobs
    /\ store = IdleStore
    /\ retry = IdleRetry
    /\ svc = [caller |-> "idle", calls |-> 0, starts |-> 0, stops |-> 0, ticker |-> 0,
              tickers |-> <<>>, gor |-> <<>>, sinceStop |-> FALSE, latePass |-> FALSE]

\* Start: a new ticker replaces fcs.ticker and a goroutine enters its select
CleanupStart ==
    /\ svc.caller = "idle"
    /\ svc.calls < MaxCalls
    /\ svc' = [svc EXCEPT !.calls = @ + 1, !.starts = @ + 1,
                          !.ticker = Len(svc.tickers) + 1,
                          !.tickers = Append(@, [running |-> TRUE, pending |-> FALSE]),
                          !.gor = Append(@, "select"),
                          !.sinceStop = FALSE]
    /\ UNCHANGED <<coreState, slow, jobs, store, retry>>

\* Stop up to its send: fcs.ticker.Stop() when there is a ticker
CleanupStop ==
    /\ svc.caller = "idle"
    /\ svc.calls < MaxCalls
    /\ svc' = [svc EXCEPT !.calls = @ + 1, !.caller = "stopping",
                          !.tickers = IF svc.ticker = 0 THEN @
                                      ELSE [@ EXCEPT ![svc.ticker].running = FALSE]]
    /\ UNCHANGED <<coreState, slow, jobs, store, retry>>

\* `fcs.done <- true` meets `case <-fcs.done` of a goroutine in its select:
\* the goroutine returns and Stop returns
StopSend ==
    /\ svc.caller = "stopping"
    /\ \E g \in DOMAIN svc.gor :
         /\ svc.gor[g] = "select"
         /\ svc' = [svc EXCEPT !.caller = "idle", !.stops = @ + 1, !.gor[g] = "exited",
                               !.sinceStop = TRUE]
    /\ UNCHANGED <<coreState, slow, jobs, store, retry>>

\* an hour passes: a running ticker puts a tick in its channel, which holds one
TickerFire ==
    /\ \E t \in DOMAIN svc.tickers :
         /\ svc.tickers[t].running
         /\ ~svc.tickers[t].pending
         /\ svc' = [svc EXCEPT !.tickers[t].pending = TRUE]
    /\ UNCHANGED <<coreState, slow, jobs, store, retry>>

\* the tickers whose channel goroutine g may find in fcs.ticker: the field is
\* read at each select without synchronisation with a later Start
TickersOf(g) == g..Len(svc.tickers)

\* `case <-fcs.ticker.C`: the goroutine takes a tick and begins a cleanup pass
cleanupOldFilesBegin ==
    /\ \E g \in DOMAIN svc.gor : \E t \in TickersOf(g) :
         /\ svc.gor[g] = "select"
         /\ svc.tickers[t].pending
         /\ svc' = [svc EXCEPT !.tickers[t].pending = FALSE, !.gor[g] = "cleaning",
                               !.latePass = @ \/ svc.sinceStop]
    /\ UNCHANGED <<coreState, slow, jobs, store, retry>>

\* cleanupOldFiles returns: the goroutine is back at its select
cleanupOldFilesEnd ==
    /\ \E g \in DOMAIN svc.gor :
         /\ svc.gor[g] = "cleaning"
         /\ svc' = [svc EXCEPT !.gor[g] = "select"]
    /\ UNCHANGED <<coreState, slow, jobs, store, retry>>

NextCleanup ==
    \/ CleanupStart
    \/ CleanupStop
    \/ StopSend
    \/ TickerFire
    \/ cleanupOldFilesBegin
    \/ cleanupOldFilesEnd

\* a cleanup pass ends, and a select with a sender on done does not take
\* ticks forever
SpecCleanup ==
    InitCleanup /\ [][NextCleanup]_vars /\ WF_vars(cleanupOldFilesEnd) /\ SF_vars(StopSend)

(***************************************************************************)
(* PDFService.convertWithRetry, one loop iteration at a time.  An error is *)
(* known by the attempt that produced it and by its kind.                  *)
(***************************************************************************)
\* the maxRetries ConvertDocxToPDFWithOrientation passes
MaxRetries == 3

\* what s.client.Send may fail with
SendErrors == {"timeout", "status"}

NoError == [attempt |-> 0, kind |-> "nil"]

\* the entry of convertWithRetry
InitRetry ==
    /\ NoCall
    /\ slow = IdleSlow
    /\ jobs = NoJobs
    /\ store = IdleStore
    /\ svc = IdleSvc
    /\ \E orientation \in BOOLEAN :
         retry = [phase |-> "loop", maxRetries |-> MaxRetries, landscape |-> orientation,
                  attempt |-> 1, lastErr |-> NoError, log |-> <<>>, waited |-> <<>>,
                  contexts |-> {}, cancelled |-> {}, returned |-> "none", response |-> 0,
                  wrapped |-> NoError]

\* the wait of every attempt
WaitsAfterEvery(attempt, maxRetries) == TRUE

\* `if attempt < maxRetries` before time.Sleep
WaitsAfter(attempt, maxRetries) == attempt < maxRetries

\* one entry of the record of attempts
Attempted(n, outcome, err) == [n |-> n, outcome |-> outcome, err |-> err]

\* the loop body up to its sleep: context.WithTimeout and defer cancel,
\* document.FromReader, which may fail, and s.client.Send
RetryAttempt ==
    /\ retry.phase = "loop"
    /\ retry.attempt <= retry.maxRetries
    /\ \/ retry' = [retry EXCEPT !.contexts = @ \cup {retry.attempt},
                                 !.log = Append(@, Attempted(retry.attempt, "reader",
                                                             [attempt |-> retry.attempt, kind |-> "reader"])),
                                 !.phase = "returning", !.returned = "error",
                                 !.wrapped = [attempt |-> retry.attempt, kind |-> "reader"]]
       \/ retry' = [retry EXCEPT !.contexts = @ \cup {retry.attempt},
                                 !.log = Append(@, Attempted(retry.attempt, "ok", NoError)),
                                 !.phase = "returning", !.returned = "response",
                                 !.response = retry.attempt]
       \/ \E kind \in SendErrors :
            retry' = [retry EXCEPT !.contexts = @ \cup {retry.attempt},
                                   !.log = Append(@, Attempted(retry.attempt, "send",
                                                               [attempt |-> retry.attempt, kind |-> kind])),
                                   !.lastErr = [attempt |-> retry.attempt, kind |-> kind],
                                   !.phase = IF WaitsAfter(retry.attempt, retry.maxRetries)
                                             THEN "sleep" ELSE "loop",
                                   !.attempt = IF WaitsAfter(retry.attempt, retry.maxRetries)
                                               THEN @ ELSE @ + 1]
    /\ UNCHANGED <<coreState, slow, jobs, store, svc>>

\* time.Sleep(time.Duration(attempt) * time.Second) and attempt++
RetrySleep ==
    /\ retry.phase = "sleep"
    /\ retry' = [retry EXCEPT !.waited = Append(@, retry.attempt), !.attempt = @ + 1,
                              !.phase = "loop"]
    /\ UNCHANGED <<coreState, slow, jobs, store, svc>>

\* the loop is over: the error that wraps lastErr
RetryExhausted ==
    /\ retry.phase = "loop"
    /\ retry.attempt > retry.maxRetries
    /\ retry' = [retry EXCEPT !.phase = "returning", !.returned = "error",
                              !.wrapped = retry.lastErr]
    /\ UNCHANGED <<coreState, slow, jobs, store, svc>>

\* the return: every deferred cancel runs, the one of the attempt whose
\* response is returned included
RetryReturn ==
    /\ retry.phase = "returning"
    /\ retry' = [retry EXCEPT !.phase = "returned", !.cancelled = retry.contexts]
    /\ UNCHANGED <<coreState, slow, jobs, store, svc>>

NextRetry ==
    \/ RetryAttempt
    \/ RetrySleep
    \/ RetryExhausted
    \/ RetryReturn

SpecRetry == InitRetry /\ [][NextRetry]_vars

(***************************************************************************)
(* Properties.                                                             *)
(***************************************************************************)
\* the primary text part as FindAndReplaceInDocument left it on disk
OutputText == files[documentPath]

\* the call is past a successful FindAndReplaceInDocument
Substituted == pc = "rezip"

\* spans <<i, e>> (1-based, inclusive) of text that run from a first rune of tok
\* to a last rune of tok and read tok once the tags are stripped
TokenSpans(text, tok) ==
    {sp \in (1..Len(text)) \X (1..Len(text)) :
        /\ sp[1] <= sp[2]
        /\ text[sp[1]] = tok[1]
        /\ text[sp[2]] = tok[Len(tok)]
        /\ removeXMLTags(SubSeq(text, sp[1], sp[2])) = tok}

Disjoint(S) == \A a \in S : \A b \in S : a = b \/ a[2] < b[1] \/ b[2] < a[1]

RECURSIVE ReplaceSpans(_, _, _, _)
\* text from rune i on, with every span of S replaced by value
ReplaceSpans(text, S, value, i) ==
    IF i > Len(text) THEN <<>>
    ELSE IF \E sp \in S : sp[1] = i
         THEN value \o ReplaceSpans(text, S, value, (CHOOSE sp \in S : sp[1] = i)[2] + 1)
         ELSE <<text[i]>> \o ReplaceSpans(text, S, value, i + 1)

RECURSIVE LeftmostSpans(_, _, _)
\* the token spans of text met from rune i on, left to right, without overlap
LeftmostSpans(text, tok, i) ==
    IF i > Len(text) THEN {}
    ELSE IF \E sp \in TokenSpans(text, tok) : sp[1] = i
         THEN LET sp == CHOOSE x \in TokenSpans(text, tok) : x[1] = i
              IN {sp} \cup LeftmostSpans(text, tok, sp[2] + 1)
         ELSE LeftmostSpans(text, tok, i + 1)

\* C1: when the service call has returned, on any path, the workspace directory
\* tempDir no longer exists and holds no file.
C1_WorkspaceReleased ==
    pc = "returned" => (tempDir \notin dirs /\ WorkspaceFiles = {})

\* C2: UnzipDocx never creates a file or a directory outside the workspace
\* root, and an entry whose name escapes the root ends the unpack with an error.
C2_Containment ==
    /\ \A p \in DOMAIN files : IsUnder(p, tempDir)
    /\ \A d \in dirs \ InitialDirs : IsUnder(d, tempDir)
    /\ pc \in {"scan", "prepare", "save", "replace", "replace_loop", "rezip", "upload"}
         => \A k \in DOMAIN archive.entries : IsUnder(Join(tempDir, archive.entries[k].name), tempDir)

\* C3: a replacement step changes the text only inside token spans: its result
\* is its input with some non-overlapping spans, each running from a token's
\* first brace to its last, replaced by the value; every other rune, tags
\* before a split token included, is kept in place.
C3_OutsideSpansUnchanged ==
    lastKey # <<>> =>
        \E S \in SUBSET TokenSpans(lastIn, lastKey) :
            /\ Disjoint(S)
            /\ contentStr = ReplaceSpans(lastIn, S, completeData[lastKey], 1)

\* C4: when the token does not occur verbatim but occurs split by tags, the
\* step replaces exactly the spans from the token's first brace through its
\* last brace by the value.
C4_SplitSpanReplaced ==
    (lastKey # <<>> /\ ~Contains(lastIn, lastKey) /\ TokenSpans(lastIn, lastKey) # {}) =>
        contentStr = ReplaceSpans(lastIn, LeftmostSpans(lastIn, lastKey, 1), completeData[lastKey], 1)

\* C5: when the token occurs verbatim, the direct path's result equals the
\* result of the tag-aware path on the same input.
C5_PathEquivalence ==
    (lastKey # <<>> /\ Contains(lastIn, lastKey)) =>
        contentStr = replaceXMLSafeSlow(lastIn, lastKey, completeData[lastKey])

\* C6: after a substitution (the values hold no brace), the tag-stripped
\* output holds none of the token literals the scan reported.
C6_NoReportedTokenLeft ==
    Substituted => \A tok \in Range(placeholders) : ~Contains(removeXMLTags(OutputText), tok)

\* C7: the map handed to FindAndReplaceInDocument has exactly the scanned
\* literals as keys, each with the caller's value or else the empty string, and
\* a token the caller gave no value for is not left as a literal in the output.
C7_DefaultFill ==
    /\ pc \in {"replace", "replace_loop", "rezip", "upload"} =>
         /\ DOMAIN completeData = Range(placeholders)
         /\ \A tok \in DOMAIN completeData :
              /\ tok \in DOMAIN data => completeData[tok] = data[tok]
              /\ tok \notin DOMAIN data => completeData[tok] = <<>>
    /\ Substituted =>
         \A tok \in Range(placeholders) \ DOMAIN data : ~Contains(removeXMLTags(OutputText), tok)

\* C8: whatever order the map's pairs were applied in, the text the loop ends
\* with is the text one fixed order gives.
C8_OrderIndependent ==
    (pc = "replace_loop" /\ pending = {}) =>
        contentStr = ApplyInOrder(OutputText, placeholders, completeData)

\* start offset of the first position that reports the literal tok
FirstStart(tok) ==
    LET hits == {k \in DOMAIN positions : positions[k].Placeholder = tok}
    IN positions[CHOOSE k \in hits : \A j \in hits : k <= j].StartPos

\* C9: ExtractPlaceholders returns every literal of the positions, each once,
\* in the order of their first occurrences in the clean text.
C9_DistinctInFirstOccurrenceOrder ==
    /\ Range(placeholders) = {positions[k].Placeholder : k \in DOMAIN positions}
    /\ \A i \in DOMAIN placeholders : \A j \in DOMAIN placeholders :
         i < j => /\ placeholders[i] # placeholders[j]
                  /\ FirstStart(placeholders[i]) < FirstStart(placeholders[j])

\* ExtractPlaceholders has returned for a text in which a literal occurs twice
C9_Witness ==
    /\ pc \in {"save", "prepare"}
    /\ Len(placeholders) >= 1
    /\ Len(positions) > Len(placeholders)

\* C10: every reported token has start < end and holds no "{{" after the one
\* it starts with.
C10_NonNesting ==
    \A k \in DOMAIN positions :
        /\ positions[k].StartPos < positions[k].EndPos
        /\ ~Contains(SubSeq(positions[k].Placeholder, 3, Len(positions[k].Placeholder)), LBraces)

\* C11: after UnzipDocx and ReZipDocx with no change in between, the output
\* container holds exactly the source container's entries (the directory
\* entries too), each under its path with its bytes.
C11_RoundTrip ==
    (pc = "upload" /\ completeData = EmptyMap) =>
        outputFile.entries = {[name |-> archive.entries[k].name,
                               content |-> archive.entries[k].content] : k \in DOMAIN archive.entries}

\* C16: a call that ends with an error leaves no output container at the
\* output path.
C16_NoPartialOutput ==
    (pc = "returned" /\ result # "ok") => ~outputFile.exists

\* byte offsets at which sub occurs in text
OccStarts(text, sub) ==
    {ByteLen(SubSeq(text, 1, i)) : i \in {j \in 0..(Len(text) - Len(sub)) :
                                            SubSeq(text, j + 1, j + Len(sub)) = sub}}

\* the scan of the primary text part has returned its positions
Scanned == pc \in {"save", "prepare"}

\* C20: the reported tokens are those of the left-to-right procedure: each
\* starts at the earliest "{{" at or after the resume offset (0, then the end of
\* the token before), ends with the nearest "}}" after its start, and is the
\* clean text between; starts increase and no two tokens overlap; the scan
\* ends at the first "{{" that no "}}" follows, or when no "{{" is left.
C20_LeftToRightScan ==
    Scanned =>
        LET clean == removeXMLTags(files[documentPath])
            opens == OccStarts(clean, LBraces)
            closes == OccStarts(clean, RBraces)
            n == Len(positions)
            resume(k) == IF k = 1 THEN 0 ELSE positions[k - 1].EndPos
            rest == {s \in opens : s >= resume(n + 1)}
        IN /\ \A k \in 1..n :
                LET t == positions[k]
                IN /\ t.StartPos \in opens
                   /\ t.StartPos >= resume(k)
                   /\ ~\E s \in opens : resume(k) <= s /\ s < t.StartPos
                   /\ t.EndPos - 2 \in closes
                   /\ t.EndPos - 2 >= t.StartPos
                   /\ ~\E e \in closes : t.StartPos <= e /\ e < t.EndPos - 2
                   /\ t.Placeholder = Slice(clean, t.StartPos, t.EndPos)
                   /\ HasPrefix(t.Placeholder, LBraces)
                   /\ SubSeq(t.Placeholder, Len(t.Placeholder) - 1, Len(t.Placeholder)) = RBraces
                   /\ k > 1 => positions[k - 1].StartPos < t.StartPos
           /\ \A s \in rest : (\A r \in rest : s <= r) => ~\E e \in closes : e >= s

\* the scan has reported two tokens with text between them
C20_Witness ==
    /\ Scanned
    /\ Len(positions) >= 2
    /\ positions[1].EndPos < positions[2].StartPos

\* the pgSz tag of the section block parseDocumentLayout reads
PgSzTagOf(content) == ElementTag(SectContent(content), PgSzOpen)

\* that tag carries a w:orient attribute
OrientGiven(content) == AttrValue(PgSzTagOf(content), <<"o", "r", "i", "e", "n", "t">>).found

\* the tag's w:w and w:h attributes read w and h
SizeGiven(content, w, h) ==
    /\ AttrValue(PgSzTagOf(content), <<"w">>) = [found |-> TRUE, value |-> w]
    /\ AttrValue(PgSzTagOf(content), <<"h">>) = [found |-> TRUE, value |-> h]

\* C12: when the pgSz tag carries no orientation attribute, landscape is
\* reported exactly when the parsed page width is greater than the parsed page
\* height (w=15840, h=12240 is landscape; w=12240, h=15840 is not), by
\* parseDocumentLayout and by DetectOrientation alike.
C12_OrientationInferred ==
    /\ (Scanned /\ ~OrientGiven(OutputText)) =>
         /\ layout.Landscape = FloatGt(layout.PageWidth, layout.PageHeight)
         /\ SizeGiven(OutputText, <<"1", "5", "8", "4", "0">>, <<"1", "2", "2", "4", "0">>) => layout.Landscape
         /\ SizeGiven(OutputText, <<"1", "2", "2", "4", "0">>, <<"1", "5", "8", "4", "0">>) => ~layout.Landscape
    /\ (pc = "returning" /\ landscape # "none" /\ ~OrientGiven(OutputText)) =>
         /\ (landscape = "landscape") = FloatGt(layout.PageWidth, layout.PageHeight)
         /\ SizeGiven(OutputText, <<"1", "5", "8", "4", "0">>, <<"1", "2", "2", "4", "0">>) => landscape = "landscape"
         /\ SizeGiven(OutputText, <<"1", "2", "2", "4", "0">>, <<"1", "5", "8", "4", "0">>) => landscape = "portrait"

\* DetectOrientation has reported landscape for a section of 15840 by 12240
\* twips without an orientation attribute
C12_Witness ==
    /\ pc = "returning"
    /\ landscape = "landscape"
    /\ ~OrientGiven(OutputText)
    /\ SizeGiven(OutputText, <<"1", "5", "8", "4", "0">>, <<"1", "2", "2", "4", "0">>)

\* C13: a w:orient attribute decides alone: "landscape" gives landscape,
\* "portrait" gives not landscape, whatever the width and the height are.
C13_ExplicitOrientation ==
    Scanned =>
        /\ AttrValue(PgSzTagOf(OutputText), <<"o", "r", "i", "e", "n", "t">>) = [found |-> TRUE, value |-> LandscapeWord]
             => layout.Landscape
        /\ AttrValue(PgSzTagOf(OutputText), <<"o", "r", "i", "e", "n", "t">>) = [found |-> TRUE, value |-> PortraitWord]
             => ~layout.Landscape

\* the text from its last "<w:sectPr" on, the whole text when it has none
LastSection(content) ==
    IF OccStarts(content, SectPrOpen) = {} THEN content
    ELSE After(content, CHOOSE a \in OccStarts(content, SectPrOpen) :
                            \A b \in OccStarts(content, SectPrOpen) : b <= a)

\* C14: when the text holds several section blocks, the layout is the one of
\* the last block.
C14_LastSectionGoverns ==
    Scanned => layout = parseDocumentLayout(LastSection(OutputText))

\* number of "<w:p " openings that start before byte offset xmlPos, at least 1
ParagraphOrdinal(content, xmlPos) ==
    IF {a \in OccStarts(content, ParagraphOpen) : a < xmlPos} = {} THEN 1
    ELSE Cardinality({a \in OccStarts(content, ParagraphOpen) : a < xmlPos})

\* the equations of calculateCoordinates for the position t, with y_raw
\* computed as topMargin + (L - 1) * lineHeight in float64
CoordinateEquations(t, fused, y_raw) ==
    /\ t.PageNumber = FloatToInt(FloatDiv(y_raw, layout.PageHeight)) + 1
    /\ t.Y = FloatMulSub(fused, y_raw, FloatFromInt(t.PageNumber - 1), layout.PageHeight)
    /\ t.X = layout.LeftMargin

\* C17: for a token of paragraph ordinal L, with y_raw = topMargin + (L - 1) *
\* lineHeight: page = floor(y_raw / pageHeight) + 1 and at least 1, y = y_raw -
\* (page - 1) * pageHeight, x = leftMargin; consequently every reported
\* position has page >= 1 and 0 <= y < pageHeight.
C17_Coordinates ==
    Scanned =>
        \A k \in DOMAIN positions :
            /\ \E fused \in BOOLEAN :
                 CoordinateEquations(
                     positions[k], fused,
                     FloatMulAdd(fused,
                                 FloatFromInt(ParagraphOrdinal(OutputText, positions[k].XMLStartPos) - 1),
                                 layout.LineHeight, layout.TopMargin))
            /\ positions[k].PageNumber >= 1
            /\ FloatLe(FloatZero, positions[k].Y)
            /\ FloatLt(positions[k].Y, layout.PageHeight)

\* C18: the tag-aware replacement terminates on every raw text and every token
\* literal: each match attempt inspects at most 10 x (token length) + 1 raw
\* characters before it succeeds or is abandoned, and each iteration of the
\* outer scan advances the read position by at least one character.
C18_BoundedAttempts ==
    /\ [](slow.inspected <= 10 * Len(slow.placeholder) + 1)
    /\ [][slow.phase \in {"matched", "nomatch"} /\ slow'.phase = "scan" => slow'.i >= slow.i + 1]_vars
    /\ <>(slow.phase = "done")

\* an attempt abandoned inside a tag after exactly 10 x (token length) + 1 characters
C18_Witness ==
    /\ slow.phase = "nomatch"
    /\ slow.inspected = 10 * Len(slow.placeholder) + 1
    /\ slow.inTag

\* C15: any two processing jobs that are alive at the same time have distinct
\* workspace identifiers, also when their NewDocxProcessor calls read the same
\* clock value.
C15_DistinctWorkspaces ==
    \A j \in Jobs : \A k \in Jobs \ {j} :
        Live(j) /\ Live(k) => jobs[j].tempDir # jobs[k].tempDir

\* a stage of job j runs in this step
StageRuns(j) ==
    /\ jobs[j].pc \in Stages
    /\ jobs'[j].pc # jobs[j].pc
    /\ ~(jobs'[j].pc = "returning" /\ jobs'[j].result = "error" /\ files' = files /\ dirs' = dirs)

\* C19: if the context of a call is already cancelled before one of the stages
\* unpack, scan, replace or repack, that stage is not started: the step the
\* call takes from there returns an error and leaves the disk as it is.
C19_CancelledStageNotStarted ==
    [][\A j \in Jobs : jobs[j].cancelled => ~StageRuns(j)]_vars

\* the rune at index i lies between a "<" and the next ">" after it, inclusive
InTagSpan(content, i) ==
    \E j \in 1..i : \E k \in i..Len(content) :
        /\ content[j] = "<"
        /\ content[k] = ">"
        /\ \A n \in j..(k - 1) : content[n] # ">"

\* the runes of content outside of every such span, in their order
Retained(content) == SelectSeq([i \in DOMAIN content |-> <<i, content[i]>>],
                               LAMBDA c : ~InTagSpan(content, c[1]))

\* C21: removeXMLTags returns the raw text without the characters from each
\* "<" through its matching ">": every other character is retained, in its
\* original order, a ">" without a preceding unclosed "<" included.
C21_TagsRemoved ==
    Scanned =>
        removeXMLTags(OutputText) = [k \in DOMAIN Retained(OutputText) |-> Retained(OutputText)[k][2]]

\* the runes i..j of content start at byte offset from and end before byte offset to
SpanAt(content, i, j, from, to) ==
    /\ ByteLen(SubSeq(content, 1, i - 1)) = from
    /\ ByteLen(SubSeq(content, 1, j)) = to

\* C22: for every reported token XMLStartPos is the raw byte offset of its
\* first "{" and XMLEndPos is one past that of its last "}": the raw text
\* between the two, tags stripped, is the token literal; also when multi-byte
\* characters precede the token.
C22_RawOffsets ==
    Scanned =>
        \A n \in DOMAIN positions :
            \E i \in DOMAIN OutputText : \E j \in DOMAIN OutputText :
                /\ SpanAt(OutputText, i, j, positions[n].XMLStartPos, positions[n].XMLEndPos)
                /\ OutputText[i] = "{"
                /\ OutputText[j] = "}"
                /\ removeXMLTags(SubSeq(OutputText, i, j)) = positions[n].Placeholder

\* the spans of the placeholder in the text of the run: those longer than
\* 10 x (token length) runes, and the others
OverBound == {sp \in TokenSpans(slow.content, slow.placeholder) :
                 sp[2] - sp[1] + 1 > 10 * Len(slow.placeholder)}

WithinBound == TokenSpans(slow.content, slow.placeholder) \ OverBound

\* C23: when a split occurrence of a token cannot be matched because its raw
\* span exceeds 10 x (token length), that occurrence is left untouched in the
\* output and every other occurrence of the token within the bound is still
\* replaced: the output is the text with exactly the spans within the bound
\* replaced by the value.
C23_AbandonedLeftAlone ==
    (slow.phase = "done" /\ OverBound # {}) =>
        slow.result = ReplaceSpans(slow.content, WithinBound, slow.value, 1)

\* v is a decimal numeral: digits with at most one dot among them
WellFormedNumber(v) ==
    /\ \A k \in DOMAIN v : v[k] \in Digits \cup {"."}
    /\ \E k \in DOMAIN v : v[k] \in Digits
    /\ Cardinality({k \in DOMAIN v : v[k] = "."}) <= 1

RECURSIVE NumeralValue(_)
\* the natural number the digits of v read, the dot left out
NumeralValue(v) ==
    IF v = <<>> THEN 0
    ELSE IF v[Len(v)] = "." THEN NumeralValue(SubSeq(v, 1, Len(v) - 1))
    ELSE 10 * NumeralValue(SubSeq(v, 1, Len(v) - 1)) + DigitValue(v[Len(v)])

\* the number of digits of v after its dot
FractionDigits(v) ==
    IF \E k \in DOMAIN v : v[k] = "." THEN Len(v) - (CHOOSE k \in DOMAIN v : v[k] = ".") ELSE 0

\* v twips in points: the float64 of the numeral, divided by 20
PointsOf(v) ==
    FloatDiv(FloatDiv(FloatFromInt(NumeralValue(v)), FloatFromInt(10 ^ FractionDigits(v))),
             FloatFromInt(20))

\* the field of the attribute a: v / 20 when a is present and well-formed
FieldOf(a, default) ==
    IF a.found /\ WellFormedNumber(a.value) THEN PointsOf(a.value) ELSE default

PgMarTagOf(content) == ElementTag(SectContent(content), PgMarOpen)

\* C24: parseDocumentLayout decides each field on its own: a width, height or
\* margin whose attribute is present with a well-formed non-negative numeral v
\* (0 included) is v / 20 points; a field whose attribute is absent or
\* malformed keeps its default, whatever the other attributes are.
C24_FieldByField ==
    Scanned =>
        /\ layout.PageWidth = FieldOf(AttrValue(PgSzTagOf(OutputText), <<"w">>), getDefaultLayout.PageWidth)
        /\ layout.PageHeight = FieldOf(AttrValue(PgSzTagOf(OutputText), <<"h">>), getDefaultLayout.PageHeight)
        /\ layout.TopMargin =
               FieldOf(AttrValue(PgMarTagOf(OutputText), <<"t", "o", "p">>), getDefaultLayout.TopMargin)
        /\ layout.LeftMargin =
               FieldOf(AttrValue(PgMarTagOf(OutputText), <<"l", "e", "f", "t">>), getDefaultLayout.LeftMargin)
        /\ layout.RightMargin =
               FieldOf(AttrValue(PgMarTagOf(OutputText), <<"r", "i", "g", "h", "t">>), getDefaultLayout.RightMargin)
        /\ layout.BottomMargin =
               FieldOf(AttrValue(PgMarTagOf(OutputText), <<"b", "o", "t", "t", "o", "m">>),
                       getDefaultLayout.BottomMargin)

\* byte offsets before xmlPos where a paragraph opens, with attributes ("<w:p ")
\* or without ("<w:p>")
OpeningsBefore(content, xmlPos) ==
    {a \in OccStarts(content, ParagraphOpen) \cup OccStarts(content, ParaPlainOpen) : a < xmlPos}

\* the ordinal of the paragraph holding byte offset xmlPos: the number of
\* openings before it, and 1 when there is none
OrdinalAt(content, xmlPos) ==
    IF OpeningsBefore(content, xmlPos) = {} THEN 1 ELSE Cardinality(OpeningsBefore(content, xmlPos))

\* C25: for a reported position at raw offset p, the line number of
\* findContainingParagraph is the number of paragraph openings strictly before
\* p, with or without attributes, and at least 1; the paragraph identifier is
\* "p" followed by that ordinal.
C25_ParagraphOrdinal ==
    Scanned =>
        \A k \in DOMAIN positions :
            /\ findContainingParagraph(OutputText, positions[k].XMLStartPos).LineNumber =
                   OrdinalAt(OutputText, positions[k].XMLStartPos)
            /\ positions[k].ParagraphId = OrdinalAt(OutputText, positions[k].XMLStartPos)

\* C26: ExtractPlaceholdersWithPositions returns normally for every readable
\* primary text, multi-byte characters and ">" outside a tag included: no
\* index is out of range, and every reported entry has
\* 0 <= XMLStartPos < XMLEndPos <= length of the raw text.
C26_SafeOffsets ==
    /\ result # "panic"
    /\ Scanned =>
           \A k \in DOMAIN positions :
               /\ 0 <= positions[k].XMLStartPos
               /\ positions[k].XMLStartPos < positions[k].XMLEndPos
               /\ positions[k].XMLEndPos <= ByteLen(OutputText)

\* C27: only literals the scanner reported are substituted: the map handed to
\* FindAndReplaceInDocument has no key outside the tokens of
\* ExtractPlaceholders, so a key of the caller's data that is not among them is
\* never replaced.
C27_OnlyScannedKeys ==
    /\ DOMAIN completeData \subseteq Range(placeholders)
    /\ pending \subseteq Range(placeholders)
    /\ lastKey # <<>> => lastKey \in Range(placeholders)

\* the replacement loop has run to its end for a caller whose data has the
\* key "TH", no token, on a text where "TH" occurs
C27_Witness ==
    /\ pc = "replace_loop"
    /\ pending = {}
    /\ lastKey # <<>>
    /\ <<"TH">> \in DOMAIN data
    /\ <<"TH">> \notin Range(placeholders)
    /\ Contains(contentStr, <<"TH">>)

\* C28: when ProcessDocument returns an error after it has uploaded the DOCX
\* (a failed marshal or a failed save), it has issued a delete for every object
\* it uploaded and no record refers to one of them; when it returns a
\* document, the record's DOCX path is the object uploaded by the call and its
\* PDF path is non-empty only when the PDF upload succeeded.
C28_UploadsUndone ==
    /\ (store.phase = "done" /\ store.returned = "error" /\ ObjectName \in store.uploaded) =>
           /\ store.uploaded \subseteq store.deletes
           /\ \A r \in store.records :
                  r.GCSPathDocx \notin store.uploaded /\ r.GCSPathPdf \notin store.uploaded
    /\ (store.phase = "done" /\ store.returned = "document") =>
           /\ store.document \in store.records
           /\ store.document.GCSPathDocx = ObjectName
           /\ ObjectName \in store.uploaded
           /\ store.document.GCSPathPdf # "" => store.document.GCSPathPdf \in store.uploaded

\* an error returned after both the DOCX and the PDF were uploaded
C28_Witness ==
    /\ store.phase = "done"
    /\ store.returned = "error"
    /\ store.uploaded = {ObjectName, PdfObjectName}

\* C29: a Stop made after Start returns, the goroutine has then exited and no
\* cleanup pass begins after Stop has returned; and in every calling sequence,
\* Stop without a preceding Start and a second Stop included, a caller inside
\* Stop eventually leaves it.
C29_StopReturns ==
    /\ []((svc.starts = 1 /\ svc.stops >= 1) => (svc.gor[1] = "exited" /\ ~svc.latePass))
    /\ (svc.caller = "stopping") ~> (svc.caller = "idle")

\* C30: convertWithRetry makes at most maxRetries (3) attempts, in order; it
\* returns the response of the first attempt that succeeds and makes no
\* attempt after a success; it waits between attempts only when another attempt
\* follows; when every attempt fails it returns an error that wraps the error
\* of the last attempt.
C30_RetryDiscipline ==
    /\ Len(retry.log) <= MaxRetries
    /\ \A k \in DOMAIN retry.log :
           /\ retry.log[k].n = k
           /\ retry.log[k].outcome = "ok" => k = Len(retry.log)
    /\ Len(retry.waited) <= Len(retry.log)
    /\ retry.phase = "returned" =>
           /\ Len(retry.waited) = Len(retry.log) - 1
           /\ \A k \in DOMAIN retry.waited : retry.log[k].outcome # "ok"
           /\ retry.returned = "response" <=> retry.log[Len(retry.log)].outcome = "ok"
           /\ retry.returned = "response" => retry.response = Len(retry.log)
           /\ retry.returned = "error" => retry.wrapped = retry.log[Len(retry.log)].err

\* every one of the three attempts failed in s.client.Send
C30_Witness ==
    /\ retry.phase = "returned"
    /\ retry.returned = "error"
    /\ Len(retry.log) = MaxRetries
    /\ retry.log[MaxRetries].outcome = "send"

====
